---- MODULE Spec2Model ----
(***************************************************************************)
(* Model of tools/shp_to_tiles.py and tools/geojson_to_tiles.py: the       *)
(* streaming aggregator (LruAppendWriter and the merge pass                *)
(* write_tile_jsons, driven by main), the tile partitioner                 *)
(* (split_polyline_by_tiles), the polyline simplifier                      *)
(* (simplify_douglas_peucker), the ring functions (point_in_polygon,       *)
(* polygon_area, polygon_centroid), the building filters and exports of    *)
(* both converters, building_height_m, the geometry reader                 *)
(* (iter_shp_records), the attribute reader (read_dbf_records) and their   *)
(* zip, the clip filter of main, the categories and exit of main, and a    *)
(* second run of main into the same output root.  Each component has its   *)
(* own specification over the one list of variables; the others stay idle  *)
(* in it.                                                                  *)
(*                                                                         *)
(* Coordinates are exact rationals: a point is <<xn, yn, d>> standing for  *)
(* (xn/d, yn/d), kept in lowest terms with d > 0.  The program computes in *)
(* IEEE doubles; the model follows the same formulas without rounding, so  *)
(* two distances that are equal exactly are a tie here even where rounding *)
(* would order them.  Only SpecMeasure also rounds: with mant > 0 every    *)
(* operation of polygon_area and polygon_centroid is rounded to mant       *)
(* significand bits, to nearest, ties to even.                             *)
(***************************************************************************)
EXTENDS Integers, Sequences, FiniteSets, TLC

VARIABLES
    \* ---- streaming aggregator and driver (Spec) ----
    pc,          \* position of main: "run", "closed", "merged", "done" ("idle": not run)
    max_open,    \* LruAppendWriter._max_open
    keep_tmp,    \* args.keep_tmp
    files,       \* LruAppendWriter._files: the open paths, oldest write first
    buffers,     \* per open path: text written but not yet flushed to the file
    tmp_files,   \* names of the files present in tmp_dir
    content,     \* per name: the text of the file on disk
    tiles_out,   \* the TileRecords written by write_tile_jsons, by (tx, ty)
    appended,    \* history: per path, the call numbers of the lines appended to it
    opens,       \* history: per path, how often append_line opened it
    evicted,     \* history: the path the last append_line evicted, or NoPath
    written,     \* history: the path the last append_line wrote, or NoPath
    \* ---- split_polyline_by_tiles (SpecSplit) ----
    sp_pc,       \* "idle", "loop", "done"
    pts,         \* the input polyline
    tile_size,   \* the tile edge length
    sp_i,        \* loop index i (0-based, as in the source)
    current_segment,
    current_tile,
    emitted,     \* the fragments add_segment stored, in emission order: <<tile, segment>>
    \* ---- simplify_douglas_peucker (SpecSimplify) ----
    dp_pc,       \* "idle", "loop", "done"
    points,      \* the input point list
    epsilon,     \* the tolerance
    keep,        \* keep[] flags over pts (the ring without its closing duplicate)
    stack,       \* the work stack of (start, end) intervals, 0-based
    dp_out,      \* the returned list
    \* ---- ring predicates and measures (SpecRing) ----
    rg_pc,       \* "idle", "start", "tested", "unclosed", "measured"
    ring0,       \* the ring as given
    ring,        \* the ring the functions were last applied to
    query,       \* the query point p of point_in_polygon
    rg_rot,      \* how many times the start vertex was rotated
    rg_first,    \* the results on ring0: [inside] or [area, centroid]
    rg_now,      \* the results on ring
    mant,        \* significand bits the float sums are rounded to (0: every operation exact)
    \* ---- area features of both converters (SpecArea) ----
    ar_pc,       \* "idle", "start", "projected", "simplify", "done"
    ar_args,     \* the options: program, tile_size, origin, min_building_area, rect_buildings
    ar_part,     \* one part of the record: a ring in planar metres
    ar_pts,      \* pts: the ring relative to the origin
    ar_appends,  \* the fragments stored: <<tx, ty, vertices>>
    \* ---- building_height_m (SpecHeight) ----
    h_pc,        \* "idle", "start", "done"
    props,       \* the feature's properties: height and levels
    h_out,       \* the returned height, a fraction <<n, d>>
    \* ---- iter_shp_records (SpecShp) ----
    shp_pc,      \* "idle", "header", "records", "end", "raised"
    shp_file,    \* the geometry file: header length, records, bytes present
    shp_pos,     \* the read position: the number of records read
    shp_out,     \* the records yielded so far
    \* ---- the driver's categories and exit (SpecDriver) ----
    dr_pc,       \* "idle", the category at hand, "close", "merge", "tileset", "return", "exit"
    shape_dir,   \* per category: the state of its file pair
    dr_done,     \* the categories whose loop ran to its end
    dr_merged,   \* the merge pass has run
    dr_tileset,  \* tileset.json has been written
    dr_exit,     \* the exit status of the process, or NoExit
    \* ---- read_dbf_records and the zip of a category's loop (SpecZip) ----
    dbf_pc,      \* "idle", "unstarted", "header", "records", "end", "raised"
    dbf_file,    \* the attribute file: header count, record flags, bytes present
    dbf_pos,     \* the number of records read so far
    dbf_out,     \* the file positions of the records yielded so far
    zip_pc,      \* whose turn it is in zip: "shp", "dbf"; "done", "raised" ("idle": not run)
    pairs,       \* the (geometry position, attribute position) pairs the loop body got
    \* ---- a second run of main into the same output root (SpecRerun) ----
    rr_run,      \* 1 during the first run, 2 during the second (0: not run)
    rr_first,    \* the first run's append calls per path and its TileRecords
    \* ---- the clip filter of main on one feature (SpecClip) ----
    cl_pc,       \* "start", "done" ("idle": not run)
    cl_in,       \* the feature: category, export mode, local points; the clip polygon, the origin
    cl_appended  \* the feature's fragment was handed to append

writerVars == <<pc, max_open, keep_tmp, files, buffers, tmp_files, content,
                tiles_out, appended, opens, evicted, written>>
splitVars == <<sp_pc, pts, tile_size, sp_i, current_segment, current_tile, emitted>>
simplifyVars == <<dp_pc, points, epsilon, keep, stack, dp_out>>
ringVars == <<rg_pc, ring0, ring, query, rg_rot, rg_first, rg_now, mant>>
areaVars == <<ar_pc, ar_args, ar_part, ar_pts, ar_appends>>
heightVars == <<h_pc, props, h_out>>
shpVars == <<shp_pc, shp_file, shp_pos, shp_out>>
driverVars == <<dr_pc, shape_dir, dr_done, dr_merged, dr_tileset, dr_exit>>
dbfVars == <<dbf_pc, dbf_file, dbf_pos, dbf_out>>
zipVars == <<zip_pc, pairs>>
rerunVars == <<rr_run, rr_first>>
clipVars == <<cl_pc, cl_in, cl_appended>>
tailVars == <<dbfVars, zipVars, rerunVars, clipVars>>
laterVars == <<ringVars, areaVars, heightVars, shpVars, driverVars, tailVars>>
vars == <<writerVars, splitVars, simplifyVars, laterVars>>

(***************************************************************************)
(* Bounds of the model.                                                    *)
(***************************************************************************)
MaxAppends == 4
MaxOpen == 2
MaxPts == 3
MaxX == 5
MaxLen == 5
MaxRing == 4
MaxCoord == 2
MantBits == 3
MaxText == 3
MaxLevelText == 2
MaxRecs == 3
MaxOdd == 1
MaxDbfRecs == 3
MaxRerunAppends == 2
MaxClipPts == 3
NumFields == 1
FieldLen == 10

(***************************************************************************)
(* Text helpers: str(int), int(str), str.split, str.strip.                 *)
(***************************************************************************)
DigitChars == <<"0", "1", "2", "3", "4", "5", "6", "7", "8", "9">>

RECURSIVE NatStr(_)
NatStr(n) == IF n < 10 THEN <<DigitChars[n + 1]>>
             ELSE NatStr(n \div 10) \o <<DigitChars[(n % 10) + 1]>>

IntStr(n) == IF n < 0 THEN <<"-">> \o NatStr(-n) ELSE NatStr(n)

DigitVal(c) == CHOOSE d \in 0..9 : DigitChars[d + 1] = c

RECURSIVE ParseNat(_, _)
ParseNat(s, acc) == IF s = <<>> THEN acc
                    ELSE ParseNat(Tail(s), acc * 10 + DigitVal(Head(s)))

ParseIntUnsigned(s) == IF Head(s) = "-" THEN ParseNat(Tail(s), 0) ELSE ParseNat(s, 0)

ParseInt(s) == IF Head(s) = "-" THEN -ParseNat(Tail(s), 0) ELSE ParseNat(s, 0)

\* s.split(sep): the pieces between separators, at least one piece
RECURSIVE SplitAcc(_, _, _)
SplitAcc(s, sep, cur) ==
    IF s = <<>> THEN <<cur>>
    ELSE IF Head(s) = sep THEN <<cur>> \o SplitAcc(Tail(s), sep, <<>>)
    ELSE SplitAcc(Tail(s), sep, Append(cur, Head(s)))

Split(s, sep) == SplitAcc(s, sep, <<>>)

IsSpace(c) == c \in {" ", "\n", "\t", "\r"}

RECURSIVE LStrip(_)
LStrip(s) == IF s # <<>> /\ IsSpace(Head(s)) THEN LStrip(Tail(s)) ELSE s

RECURSIVE RStrip(_)
RStrip(s) == IF s # <<>> /\ IsSpace(s[Len(s)]) THEN RStrip(SubSeq(s, 1, Len(s) - 1)) ELSE s

Strip(s) == RStrip(LStrip(s))

Suffix == <<".", "j", "s", "o", "n", "l">>

EndsWith(s, suf) == Len(s) >= Len(suf) /\ SubSeq(s, Len(s) - Len(suf) + 1, Len(s)) = suf

\* json.dumps / json.loads of a fragment; a fragment is identified by the
\* number of the append call that produced it
Dumps(obj) == <<"{">> \o IntStr(obj) \o <<"}">>

Loads(line) == ParseInt(SubSeq(line, 2, Len(line) - 1))

(***************************************************************************)
(* The categories main appends under, the tiles, and the channel paths.    *)
(***************************************************************************)
PayloadKeys == {"buildings", "roads", "waters", "waterways", "landcovers", "railways", "pois"}

Categories == {"roads", "pois"}

Tiles == {<<0, 0>>, <<-1, 12>>}

\* main.append: f"{category}_{tx}_{ty}.jsonl" inside tmp_dir
FileName(category, tx, ty) ==
    <<category, "_">> \o IntStr(tx) \o <<"_">> \o IntStr(ty) \o Suffix

Keys == Categories \X Tiles

PathOf(k) == FileName(k[1], k[2][1], k[2][2])

Paths == {PathOf(k) : k \in Keys}

NoPath == <<>>

(***************************************************************************)
(* LruAppendWriter                                                         *)
(***************************************************************************)
IsOpen(fs, path) == \E i \in 1..Len(fs) : fs[i] = path

\* open(path, "a"): creates the file when missing, keeps its text otherwise
OpenTruncate(names, text, path) == [text EXCEPT ![path] = <<>>]

OpenAppend(names, text, path) ==
    IF path \in names THEN text ELSE [text EXCEPT ![path] = <<>>]

Remove(fs, path) == SelectSeq(fs, LAMBDA q : q # path)

\* OrderedDict.move_to_end(path)
NoMoveToEnd(fs, path) == fs

MoveToEnd(fs, path) == Append(Remove(fs, path), path)

\* len(self._files) > self._max_open
NeedEvictLate(fs, m) == Len(fs) > m + 1

NeedEvict(fs, m) == Len(fs) > m

\* OrderedDict.popitem(last=False): the first key
PopItem(fs) == Head(fs)

\* file.close(): the buffered text reaches the file
Flushed(text, bufs, path) == [text EXCEPT ![path] = @ \o bufs[path]]

\* the number of append_line calls made so far
RECURSIVE SumLen(_, _)
SumLen(f, S) == IF S = {} THEN 0
                ELSE LET p == CHOOSE q \in S : TRUE
                     IN Len(f[p]) + SumLen(f, S \ {p})

Calls == SumLen(appended, Paths)

\* append_line(path, line); line = json.dumps(obj).  The buffered writer may
\* flush on its own during a write (flush = TRUE) or hold the text.
AppendLine(path, flush) ==
    /\ pc = "run"
    /\ Calls < MaxAppends
    /\ LET obj == Calls + 1
           isNew == ~IsOpen(files, path)
           text1 == IF isNew THEN OpenAppend(tmp_files, content, path) ELSE content
           fs1 == IF isNew THEN Append(files, path) ELSE MoveToEnd(files, path)
           buf1 == [buffers EXCEPT ![path] =
                       (IF isNew THEN <<>> ELSE @) \o Dumps(obj) \o <<"\n">>]
           text2 == IF flush THEN Flushed(text1, buf1, path) ELSE text1
           buf2 == IF flush THEN [buf1 EXCEPT ![path] = <<>>] ELSE buf1
           old == PopItem(fs1)
       IN /\ tmp_files' = tmp_files \cup {path}
          /\ appended' = [appended EXCEPT ![path] = Append(@, obj)]
          /\ opens' = [opens EXCEPT ![path] = IF isNew THEN @ + 1 ELSE @]
          /\ written' = path
          /\ IF NeedEvict(fs1, max_open)
             THEN /\ files' = Tail(fs1)
                  /\ content' = Flushed(text2, buf2, old)
                  /\ buffers' = [buf2 EXCEPT ![old] = <<>>]
                  /\ evicted' = old
             ELSE /\ files' = fs1
                  /\ content' = text2
                  /\ buffers' = buf2
                  /\ evicted' = NoPath
    /\ UNCHANGED <<pc, max_open, keep_tmp, tiles_out>>

\* the open files are dropped without a flush
CloseNone(fs, text, bufs) == text

\* close(): every open file is closed, the table cleared
RECURSIVE CloseAll(_, _, _)
CloseAll(fs, text, bufs) ==
    IF fs = <<>> THEN text
    ELSE CloseAll(Tail(fs), Flushed(text, bufs, Head(fs)), bufs)

Close ==
    /\ pc = "run"
    /\ content' = CloseAll(files, content, buffers)
    /\ buffers' = [p \in Paths |-> <<>>]
    /\ files' = <<>>
    /\ pc' = "closed"
    /\ UNCHANGED <<max_open, keep_tmp, tmp_files, tiles_out, appended, opens, evicted, written>>

(***************************************************************************)
(* write_tile_jsons                                                        *)
(***************************************************************************)
\* a listed name is used when it ends in ".jsonl" and has at least 3 parts
NameParts(fn) == Split(SubSeq(fn, 1, Len(fn) - 6), "_")

Usable(fn) == EndsWith(fn, Suffix) /\ Len(NameParts(fn)) >= 3

CategoryOf(fn) == NameParts(fn)[1][1]

TileOfUnsigned(fn) == <<ParseIntUnsigned(NameParts(fn)[2]), ParseIntUnsigned(NameParts(fn)[3])>>

TileOf(fn) == <<ParseInt(NameParts(fn)[2]), ParseInt(NameParts(fn)[3])>>

\* for line in f: line = line.strip(); skip empty; json.loads(line)
RECURSIVE LoadLines(_)
LoadLines(ls) ==
    IF ls = <<>> THEN <<>>
    ELSE LET line == Strip(Head(ls))
         IN (IF line = <<>> THEN <<>> ELSE <<Loads(line)>>) \o LoadLines(Tail(ls))

ReadFragments(text) == LoadLines(Split(text, "\n"))

\* the payload of tile t: one array per key, filled from the tile's files
Payload(t, names, text) ==
    [key \in PayloadKeys |->
        IF \E fn \in names : Usable(fn) /\ TileOf(fn) = t /\ CategoryOf(fn) = key
        THEN ReadFragments(text[CHOOSE fn \in names :
                                    Usable(fn) /\ TileOf(fn) = t /\ CategoryOf(fn) = key])
        ELSE <<>>]

\* the tile files of the tiles found are written anew, the others stay
Merge ==
    /\ pc = "closed"
    /\ LET found == {TileOf(fn) : fn \in {g \in tmp_files : Usable(g)}}
       IN tiles_out' = [t \in DOMAIN tiles_out \cup found |->
                           IF t \in found THEN Payload(t, tmp_files, content)
                           ELSE tiles_out[t]]
    /\ pc' = "merged"
    /\ UNCHANGED <<max_open, keep_tmp, files, buffers, tmp_files, content,
                   appended, opens, evicted, written>>

\* main, after the merge: shutil.rmtree(tmp_dir) unless --keep-tmp
Cleanup ==
    /\ pc = "merged"
    /\ IF keep_tmp
       THEN UNCHANGED <<tmp_files, content>>
       ELSE /\ tmp_files' = {}
            /\ content' = [p \in Paths |-> <<>>]
    /\ pc' = "done"
    /\ UNCHANGED <<max_open, keep_tmp, files, buffers, tiles_out, appended, opens,
                   evicted, written>>

(***************************************************************************)
(* Exact planar arithmetic.  A point is <<xn, yn, d>> = (xn/d, yn/d).      *)
(***************************************************************************)
Abs(a) == IF a < 0 THEN -a ELSE a

RECURSIVE Gcd(_, _)
Gcd(a, b) == IF b = 0 THEN a ELSE Gcd(b, a % b)

Pt(x, y) == <<x, y, 1>>

Normal(xn, yn, d) ==
    LET g == Gcd(Gcd(Abs(xn), Abs(yn)), d)
    IN <<xn \div g, yn \div g, d \div g>>

\* largest k with k * k <= n
RECURSIVE IsqrtFrom(_, _)
IsqrtFrom(n, k) == IF (k + 1) * (k + 1) > n THEN k ELSE IsqrtFrom(n, k + 1)

Isqrt(n) == IsqrtFrom(n, 0)

\* tile_xy: math.floor(x / tile_size), math.floor(y / tile_size)
tile_xy(p, ts) == <<p[1] \div (p[3] * ts), p[2] \div (p[3] * ts)>>

\* interpolate_point(p1, p2, t) at t = step / num_steps
interpolate_point(p1, p2, step, n) ==
    LET D == p1[3] * p2[3]
    IN Normal(p1[1] * p2[3] * n + step * (p2[1] * p1[3] - p1[1] * p2[3]),
              p1[2] * p2[3] * n + step * (p2[2] * p1[3] - p1[2] * p2[3]),
              D * n)

\* the square of math.hypot(dx, dy), as the fraction <<numerator, denominator>>
Dist2(p1, p2) ==
    LET dx == p2[1] * p1[3] - p1[1] * p2[3]
        dy == p2[2] * p1[3] - p1[2] * p2[3]
        D == p1[3] * p2[3]
    IN <<dx * dx + dy * dy, D * D>>

\* dist > tile_size * 0.5
IsLong(p1, p2, ts) == 4 * Dist2(p1, p2)[1] > ts * ts * Dist2(p1, p2)[2]

\* steps of half a tile: max(2, int(dist / (tile_size * 0.5)))
num_steps_coarse(p1, p2, ts) ==
    LET q == (4 * Dist2(p1, p2)[1]) \div (ts * ts * Dist2(p1, p2)[2])
        k == Isqrt(q)
    IN IF k > 2 THEN k ELSE 2

\* max(2, int(dist / (tile_size * 0.4)))
num_steps(p1, p2, ts) ==
    LET q == (25 * Dist2(p1, p2)[1]) \div (4 * ts * ts * Dist2(p1, p2)[2])
        k == Isqrt(q)
    IN IF k > 2 THEN k ELSE 2

(***************************************************************************)
(* split_polyline_by_tiles                                                 *)
(***************************************************************************)
\* add_segment, keyed by the tile of the segment's last point
add_segment_by_last(em, tile, segment) ==
    IF Len(segment) >= 2
    THEN Append(em, <<tile_xy(segment[Len(segment)], tile_size), segment>>)
    ELSE em

\* add_segment that stores a segment of any length
add_segment_any(em, tile, segment) == Append(em, <<tile, segment>>)

\* add_segment that stores a segment only with at least 3 points
add_segment_long(em, tile, segment) ==
    IF Len(segment) >= 3 THEN Append(em, <<tile, segment>>) ELSE em

\* add_segment(tile, segment): stored only with at least 2 points
add_segment(em, tile, segment) ==
    IF Len(segment) >= 2 THEN Append(em, <<tile, segment>>) ELSE em

\* a new segment that does not start at the cut point
new_segment_empty(pt) == <<>>

\* current_segment = [interp_pt] / [curr_pt]
new_segment(pt) == <<pt>>

\* the loop over step in range(1, num_steps); st = [seg, tile, em]
RECURSIVE InterpLoop(_, _, _, _, _)
InterpLoop(step, n, prev_pt, curr_pt, st) ==
    IF step >= n THEN st
    ELSE LET interp_pt == interpolate_point(prev_pt, curr_pt, step, n)
             interp_tile == tile_xy(interp_pt, tile_size)
         IN IF interp_tile # st.tile
            THEN InterpLoop(step + 1, n, prev_pt, curr_pt,
                            [seg |-> new_segment(interp_pt),
                             tile |-> interp_tile,
                             em |-> add_segment(st.em, st.tile, Append(st.seg, interp_pt))])
            ELSE InterpLoop(step + 1, n, prev_pt, curr_pt, st)

\* one iteration of the loop over the vertices
Visit(prev_pt, curr_pt, st) ==
    LET curr_tile == tile_xy(curr_pt, tile_size)
    IN IF curr_tile = st.tile
       THEN [st EXCEPT !.seg = Append(@, curr_pt)]
       ELSE LET s1 == IF IsLong(prev_pt, curr_pt, tile_size)
                      THEN InterpLoop(1, num_steps(prev_pt, curr_pt, tile_size),
                                      prev_pt, curr_pt, st)
                      ELSE st
            IN IF curr_tile # s1.tile
               THEN [seg |-> new_segment(curr_pt),
                     tile |-> curr_tile,
                     em |-> add_segment(s1.em, s1.tile, Append(s1.seg, curr_pt))]
               ELSE [s1 EXCEPT !.seg = Append(@, curr_pt)]

\* entry: the early return for fewer than 2 points, else the first vertex
SplitBegin ==
    /\ sp_pc = "start"
    /\ IF Len(pts) < 2
       THEN /\ sp_pc' = "done"
            /\ UNCHANGED <<sp_i, current_segment, current_tile, emitted>>
       ELSE /\ sp_pc' = "loop"
            /\ sp_i' = 1
            /\ current_segment' = <<pts[1]>>
            /\ current_tile' = tile_xy(pts[1], tile_size)
            /\ emitted' = <<>>
    /\ UNCHANGED <<pts, tile_size>>

\* for i in range(1, len(pts)); pts[i] of the source is pts[sp_i + 1] here
SplitVertex ==
    /\ sp_pc = "loop"
    /\ sp_i < Len(pts)
    /\ LET st == Visit(pts[sp_i], pts[sp_i + 1],
                       [seg |-> current_segment, tile |-> current_tile, em |-> emitted])
       IN /\ current_segment' = st.seg
          /\ current_tile' = st.tile
          /\ emitted' = st.em
    /\ sp_i' = sp_i + 1
    /\ UNCHANGED <<sp_pc, pts, tile_size>>

\* after the loop: the last segment, then return
SplitEnd ==
    /\ sp_pc = "loop"
    /\ sp_i = Len(pts)
    /\ emitted' = add_segment(emitted, current_tile, current_segment)
    /\ sp_pc' = "done"
    /\ UNCHANGED <<pts, tile_size, sp_i, current_segment, current_tile>>

(***************************************************************************)
(* simplify_douglas_peucker; its points have denominator 1.                *)
(* Distances are compared by their squares, kept as fractions <<n, d>>.    *)
(***************************************************************************)
FracGt(f, g) == f[1] * g[2] > g[1] * f[2]

\* point_line_distance(p, a, b), squared
point_line_distance2(p, a, b) ==
    LET dx == b[1] - a[1]
        dy == b[2] - a[2]
        len2 == dx * dx + dy * dy
        dot == (p[1] - a[1]) * dx + (p[2] - a[2]) * dy
        cross == (p[1] - a[1]) * dy - (p[2] - a[2]) * dx
        pa2 == (p[1] - a[1]) * (p[1] - a[1]) + (p[2] - a[2]) * (p[2] - a[2])
        pb2 == (p[1] - b[1]) * (p[1] - b[1]) + (p[2] - b[2]) * (p[2] - b[2])
    IN IF len2 = 0 THEN <<pa2, 1>>
       ELSE IF dot < 0 THEN <<pa2, 1>>
       ELSE IF dot > len2 THEN <<pb2, 1>>
       ELSE LET g == Gcd(cross * cross, len2)
            IN <<(cross * cross) \div g, len2 \div g>>

\* closed = points[0] == points[-1]
closed(ps) == ps[1] = ps[Len(ps)]

\* pts = points[:-1] if closed else points
dp_pts(ps) == IF closed(ps) THEN SubSeq(ps, 1, Len(ps) - 1) ELSE ps

\* keep with only keep[0] set
init_keep_first(n) == [i \in 1..n |-> i = 1]

\* keep = [False] * n; keep[0] = True; keep[-1] = True
init_keep(n) == [i \in 1..n |-> i = 1 \/ i = n]

\* the scan for i in range(start + 1, end): the first point at the largest
\* distance; best = [d2, idx], starting from max_dist = -1.0, idx = -1
RECURSIVE Farthest(_, _, _, _, _, _)
Farthest(P, i, end, a, b, best) ==
    IF i >= end THEN best
    ELSE LET d2 == point_line_distance2(P[i + 1], a, b)
         IN IF FracGt(d2, best.d2)
            THEN Farthest(P, i + 1, end, a, b, [d2 |-> d2, idx |-> i])
            ELSE Farthest(P, i + 1, end, a, b, best)

\* max_dist > epsilon and idx != -1, for epsilon = eps[1] / eps[2]; a
\* distance exceeds every negative epsilon
exceeds(best, eps) ==
    /\ best.idx # -1
    /\ \/ eps[1] < 0
       \/ FracGt(best.d2, <<eps[1] * eps[1], eps[2] * eps[2]>>)

\* the interval popped is pushed again
push_same(st, start, idx, end) == Append(st, <<start, end>>)

\* only the left interval is pushed
push_left(st, start, idx, end) == Append(st, <<start, idx>>)

\* stack.append((start, idx)); stack.append((idx, end))
push_both(st, start, idx, end) == Append(Append(st, <<start, idx>>), <<idx, end>>)

\* out = [p for i, p in enumerate(pts) if keep[i]]
RECURSIVE kept_points(_, _, _)
kept_points(P, k, i) ==
    IF i > Len(P) THEN <<>>
    ELSE (IF k[i] THEN <<P[i]>> ELSE <<>>) \o kept_points(P, k, i + 1)

\* entry: the early returns, else keep and the first interval
DPBegin ==
    /\ dp_pc = "start"
    /\ IF Len(points) < 4 \/ Len(dp_pts(points)) < 4
       THEN /\ dp_out' = points
            /\ dp_pc' = "done"
            /\ UNCHANGED <<keep, stack>>
       ELSE /\ keep' = init_keep(Len(dp_pts(points)))
            /\ stack' = <<<<0, Len(dp_pts(points)) - 1>>>>
            /\ dp_pc' = "loop"
            /\ UNCHANGED dp_out
    /\ UNCHANGED <<points, epsilon>>

\* one iteration of while stack: pop, scan, keep and push
DPStep ==
    /\ dp_pc = "loop"
    /\ stack # <<>>
    /\ LET P == dp_pts(points)
           top == stack[Len(stack)]
           rest == SubSeq(stack, 1, Len(stack) - 1)
           best == Farthest(P, top[1] + 1, top[2], P[top[1] + 1], P[top[2] + 1],
                            [d2 |-> <<-1, 1>>, idx |-> -1])
       IN IF exceeds(best, epsilon)
          THEN /\ keep' = [keep EXCEPT ![best.idx + 1] = TRUE]
               /\ stack' = push_both(rest, top[1], best.idx, top[2])
          ELSE /\ stack' = rest
               /\ UNCHANGED keep
    /\ UNCHANGED <<dp_pc, points, epsilon, dp_out>>

\* after the loop: collect the kept points, restore the closing point
DPEnd ==
    /\ dp_pc = "loop"
    /\ stack = <<>>
    /\ LET out == kept_points(dp_pts(points), keep, 1)
       IN dp_out' = IF closed(points) THEN Append(out, out[1]) ELSE out
    /\ dp_pc' = "done"
    /\ UNCHANGED <<points, epsilon, keep, stack>>

(***************************************************************************)
(* Fractions <<n, d>> with d > 0 in lowest terms: the values of the        *)
(* program's float arithmetic, without rounding.                           *)
(***************************************************************************)
Fr(n, d) ==
    LET s == IF d < 0 THEN -1 ELSE 1
        g == Gcd(Abs(n), Abs(d))
    IN <<(s * n) \div g, (s * d) \div g>>

FrAdd(a, b) == Fr(a[1] * b[2] + b[1] * a[2], a[2] * b[2])

FrSub(a, b) == Fr(a[1] * b[2] - b[1] * a[2], a[2] * b[2])

FrMul(a, b) == Fr(a[1] * b[1], a[2] * b[2])

FrDiv(a, b) == Fr(a[1] * b[2], a[2] * b[1])

FrLt(a, b) == a[1] * b[2] < b[1] * a[2]

FrAbs(a) == <<Abs(a[1]), a[2]>>

\* the coordinates p[0], p[1] of a point
PX(p) == Fr(p[1], p[3])

PY(p) == Fr(p[2], p[3])

\* the point (x, y) of two fractions
PtOf(x, y) == Normal(x[1] * y[2], y[1] * x[2], x[2] * y[2])

RECURSIVE Pow2(_)
Pow2(k) == IF k = 0 THEN 1 ELSE 2 * Pow2(k - 1)

\* the significand a / d scaled into [2^(P-1), 2^P): <<a, d>> after doubling
\* one of the two as often as needed
RECURSIVE Scaled(_, _, _)
Scaled(a, d, P) ==
    IF a >= Pow2(P) * d THEN Scaled(a, 2 * d, P)
    ELSE IF a < Pow2(P - 1) * d THEN Scaled(2 * a, d, P)
    ELSE <<a, d>>

\* round to nearest, ties to even, with P significand bits
RoundTo(f, P) ==
    LET sc == Scaled(Abs(f[1]), f[2], P)
        m == sc[1] \div sc[2]
        rem == sc[1] - m * sc[2]
        up == 2 * rem > sc[2] \/ (2 * rem = sc[2] /\ m % 2 = 1)
        mm == IF up THEN m + 1 ELSE m
        sgn == IF f[1] < 0 THEN -1 ELSE 1
    IN Fr(sgn * mm * sc[2] * Abs(f[1]), f[2] * sc[1])

\* the result of one float operation
Rnd(f) == IF mant = 0 \/ f[1] = 0 THEN f ELSE RoundTo(f, mant)

FAdd(a, b) == Rnd(FrAdd(a, b))

FSub(a, b) == Rnd(FrSub(a, b))

FMul(a, b) == Rnd(FrMul(a, b))

FDiv(a, b) == Rnd(FrDiv(a, b))

(***************************************************************************)
(* ring_without_duplicate_closure, point_in_polygon, polygon_area          *)
(* (shp_to_tiles.py) and polygon_centroid (geojson_to_tiles.py).           *)
(***************************************************************************)
ring_without_duplicate_closure(ps) ==
    IF Len(ps) >= 2 /\ ps[1] = ps[Len(ps)] THEN SubSeq(ps, 1, Len(ps) - 1) ELSE ps

\* yi > y
Above(a, p) == FrLt(PY(p), PY(a))

\* x < (xj - xi) * (y - yi) / (yj - yi + 1e-30) + xi.  The term 1e-30 is below
\* the rounding of yj - yi unless yj = yi; then the quotient is the product
\* (xj - xi) * (y - yi) times 1e30, which decides the comparison by its sign.
LeftOfEdge(p, a, b) ==
    LET dy == FrSub(PY(b), PY(a))
        k == FrMul(FrSub(PX(b), PX(a)), FrSub(PY(p), PY(a)))
        dx == FrSub(PX(p), PX(a))
    IN IF dy[1] = 0
       THEN IF k[1] = 0 THEN dx[1] < 0 ELSE k[1] > 0
       ELSE FrLt(dx, FrDiv(k, dy))

\* intersect of an edge taken with both ends tested by >=
intersect_inclusive(p, a, b) ==
    ((~Above(p, a)) # Above(b, p)) /\ LeftOfEdge(p, a, b)

\* intersect = ((yi > y) != (yj > y)) and (x < ...), for a = poly[i], b = poly[j]
intersect(p, a, b) ==
    (Above(a, p) # Above(b, p)) /\ LeftOfEdge(p, a, b)

\* the loop of point_in_polygon from index i on (1-based), j the previous index
RECURSIVE pip_loop(_, _, _, _, _)
pip_loop(p, poly, i, j, inside) ==
    IF i > Len(poly) THEN inside
    ELSE pip_loop(p, poly, i + 1, i,
                  IF intersect(p, poly[i], poly[j]) THEN ~inside ELSE inside)

point_in_polygon(p, poly) ==
    IF Len(poly) < 3 THEN FALSE ELSE pip_loop(p, poly, 1, Len(poly), FALSE)

\* points[(i + 1) % len(points)], 1-based
NextPt(ps, i) == ps[(i % Len(ps)) + 1]

\* x0 * y1 - x1 * y0
Cross(p0, p1) == FSub(FMul(PX(p0), PY(p1)), FMul(PX(p1), PY(p0)))

\* a after the loop has run from index i on: a += x0 * y1 - x1 * y0
RECURSIVE SumCross(_, _, _)
SumCross(ps, i, a) ==
    IF i > Len(ps) THEN a
    ELSE SumCross(ps, i + 1, FAdd(a, Cross(ps[i], NextPt(ps, i))))

\* the sum without abs()
polygon_area_signed(ps) ==
    IF Len(ps) < 3 THEN <<0, 1>> ELSE FMul(SumCross(ps, 1, <<0, 1>>), <<1, 2>>)

polygon_area(ps) ==
    IF Len(ps) < 3 THEN <<0, 1>> ELSE FMul(FrAbs(SumCross(ps, 1, <<0, 1>>)), <<1, 2>>)

\* sum(p[0] for p in points), sum(p[1] for p in points), added left to right
RECURSIVE SumX(_, _, _)
SumX(ps, i, acc) == IF i > Len(ps) THEN acc ELSE SumX(ps, i + 1, FAdd(acc, PX(ps[i])))

RECURSIVE SumY(_, _, _)
SumY(ps, i, acc) == IF i > Len(ps) THEN acc ELSE SumY(ps, i + 1, FAdd(acc, PY(ps[i])))

\* (sum of x / n, sum of y / n)
Mean(ps, n) ==
    PtOf(FDiv(SumX(ps, 1, <<0, 1>>), <<n, 1>>), FDiv(SumY(ps, 1, <<0, 1>>), <<n, 1>>))

\* cx after the loop has run from index i on: cx += (x0 + x1) * cross
RECURSIVE SumCx(_, _, _)
SumCx(ps, i, cx) ==
    IF i > Len(ps) THEN cx
    ELSE SumCx(ps, i + 1,
               FAdd(cx, FMul(FAdd(PX(ps[i]), PX(NextPt(ps, i))),
                             Cross(ps[i], NextPt(ps, i)))))

RECURSIVE SumCy(_, _, _)
SumCy(ps, i, cy) ==
    IF i > Len(ps) THEN cy
    ELSE SumCy(ps, i + 1,
               FAdd(cy, FMul(FAdd(PY(ps[i]), PY(NextPt(ps, i))),
                             Cross(ps[i], NextPt(ps, i)))))

\* f < 1e-6
LtMicro(f) == f[1] <= (f[2] - 1) \div 1000000

\* abs(a) < 1e-6
Degenerate(a) == LtMicro(FrAbs(a))

polygon_centroid(ps) ==
    IF Len(ps) < 3 THEN Mean(ps, IF Len(ps) > 1 THEN Len(ps) ELSE 1)
    ELSE LET a == SumCross(ps, 1, <<0, 1>>)
         IN IF Degenerate(a) THEN Mean(ps, Len(ps))
            ELSE LET a6 == FMul(<<6, 1>>, FMul(a, <<1, 2>>))
                 IN PtOf(FDiv(SumCx(ps, 1, <<0, 1>>), a6),
                         FDiv(SumCy(ps, 1, <<0, 1>>), a6))

\* point_in_polygon called on the ring as given
PipBegin ==
    /\ rg_pc = "start"
    /\ rg_first' = [inside |-> point_in_polygon(query, ring0)]
    /\ rg_now' = rg_first'
    /\ rg_pc' = "tested"
    /\ UNCHANGED <<ring0, ring, query, rg_rot, mant>>

\* ring_without_duplicate_closure, then point_in_polygon on its result
PipUnclose ==
    /\ rg_pc = "tested"
    /\ ring' = ring_without_duplicate_closure(ring)
    /\ rg_now' = [inside |-> point_in_polygon(query, ring')]
    /\ rg_pc' = "unclosed"
    /\ UNCHANGED <<ring0, query, rg_rot, rg_first, mant>>

\* polygon_area and polygon_centroid of one ring
Measure(r) == [area |-> polygon_area(r), centroid |-> polygon_centroid(r)]

MeasureBegin ==
    /\ rg_pc = "start"
    /\ rg_first' = Measure(ring0)
    /\ rg_now' = rg_first'
    /\ rg_pc' = "measured"
    /\ UNCHANGED <<ring0, ring, query, rg_rot, mant>>

\* the same ring, starting one vertex later
MeasureRotate ==
    /\ rg_pc = "measured"
    /\ rg_rot + 1 < Len(ring0)
    /\ ring' = Append(Tail(ring), Head(ring))
    /\ rg_rot' = rg_rot + 1
    /\ rg_now' = Measure(ring')
    /\ UNCHANGED <<rg_pc, ring0, query, rg_first, mant>>

(***************************************************************************)
(* Area features: the buildings loop of shp_to_tiles.py main for one part  *)
(* and the polygon branch of geojson_to_tiles.py main for one outer ring,  *)
(* from the point where the ring has been projected and moved to the       *)
(* origin.  The rings are given in planar metres (the projection is not    *)
(* modelled); no clip polygon is set (--clip-readme absent).               *)
(***************************************************************************)
None == <<>>

\* --max-building-extent and --simplify-meters, at their defaults
max_building_extent == 500

simplify_meters == <<4, 5>>

\* pts.append((x - origin_x, y - origin_y)) for every point of the part
Project(part, origin) ==
    [i \in 1..Len(part) |->
        PtOf(FSub(PX(part[i]), PX(origin)), FSub(PY(part[i]), PY(origin)))]

\* the corner of the tile instead of its centre
tile_corner(t, ts) == Normal(t[1] * ts, t[2] * ts, 1)

\* tile_center: (tx * tile_size + tile_size * 0.5, ty * tile_size + tile_size * 0.5)
tile_center(t, ts) == Normal(2 * t[1] * ts + ts, 2 * t[2] * ts + ts, 2)

\* [(x - center_x, y - center_y) for (x, y) in ring]
LocalVertices(ps, c) ==
    [i \in 1..Len(ps) |-> PtOf(FSub(PX(ps[i]), PX(c)), FSub(PY(ps[i]), PY(c)))]

\* the fragment stored for a ring whose tile is chosen by the point c
Fragment(ps, c, ts) ==
    LET t == tile_xy(c, ts)
    IN <<t[1], t[2], LocalVertices(ps, tile_center(t, ts))>>

\* max(xs), min(xs) over the fractions f[1..n]
RECURSIVE MaxFr(_, _)
MaxFr(f, n) ==
    IF n = 1 THEN f[1]
    ELSE LET m == MaxFr(f, n - 1) IN IF FrLt(m, f[n]) THEN f[n] ELSE m

RECURSIVE MinFr(_, _)
MinFr(f, n) ==
    IF n = 1 THEN f[1]
    ELSE LET m == MinFr(f, n - 1) IN IF FrLt(f[n], m) THEN f[n] ELSE m

Xs_of(ps) == [i \in 1..Len(ps) |-> PX(ps[i])]

Ys_of(ps) == [i \in 1..Len(ps) |-> PY(ps[i])]

\* max(extent_x, extent_y)
max_extent(ps) ==
    LET ex == FSub(MaxFr(Xs_of(ps), Len(ps)), MinFr(Xs_of(ps), Len(ps)))
        ey == FSub(MaxFr(Ys_of(ps), Len(ps)), MinFr(Ys_of(ps), Len(ps)))
    IN IF FrLt(ex, ey) THEN ey ELSE ex

\* [(minx, miny), (maxx, miny), (maxx, maxy), (minx, maxy)]
BBoxCorners(ps) ==
    LET minx == MinFr(Xs_of(ps), Len(ps))
        maxx == MaxFr(Xs_of(ps), Len(ps))
        miny == MinFr(Ys_of(ps), Len(ps))
        maxy == MaxFr(Ys_of(ps), Len(ps))
    IN <<PtOf(minx, miny), PtOf(maxx, miny), PtOf(maxx, maxy), PtOf(minx, maxy)>>

\* the sums of dx * dx, dx * dy, dy * dy about the mean (n times cxx, cxy, cyy);
\* each new value of the sums is bound through a one-element set, which has it
\* computed once
RECURSIVE CovSum(_, _, _, _)
CovSum(ps, m, i, acc) ==
    IF i > Len(ps) THEN acc
    ELSE CHOOSE s \in
            {CovSum(ps, m, i + 1,
                    <<FAdd(acc[1], FMul(d[1], d[1])), FAdd(acc[2], FMul(d[1], d[2])),
                      FAdd(acc[3], FMul(d[2], d[2]))>>) :
                d \in {<<FSub(PX(ps[i]), PX(m)), FSub(PY(ps[i]), PY(m))>>}} : TRUE

Cov(ps) ==
    CHOOSE c \in
        {[cxx |-> FDiv(s[1], <<Len(ps), 1>>), cxy |-> FDiv(s[2], <<Len(ps), 1>>),
          cyy |-> FDiv(s[3], <<Len(ps), 1>>)] :
            s \in {CovSum(ps, m, 1, <<<<0, 1>>, <<0, 1>>, <<0, 1>>>>) :
                      m \in {Mean(ps, Len(ps))}}} : TRUE

\* abs(cxy) > 1e-9 is false: the covariance is diagonal and the axes are rational
AxisAligned(ps) == Len(ps) >= 3 => Cov(ps).cxy[1] = 0

\* pca_obb for a diagonal covariance: None when degenerate or thinner than 0.2,
\* else the box about the mean along u = (1, 0) (cxx >= cyy) or u = (0, 1)
pca_obb(ps) ==
    IF Len(ps) < 3 THEN None
    ELSE CHOOSE o \in
            {LET ex == FSub(PX(b[2]), PX(b[1]))
                 ey == FSub(PY(b[3]), PY(b[2]))
             IN IF LtMicro(FAdd(c.cxx, c.cyy)) THEN None
                ELSE IF FrLt(ex, <<1, 5>>) \/ FrLt(ey, <<1, 5>>) THEN None
                ELSE IF ~FrLt(c.cxx, c.cyy) THEN b
                ELSE <<b[2], b[3], b[4], b[1]>> :
                c \in {Cov(ps)}, b \in {BBoxCorners(ps)}} : TRUE

\* polygon_area(pts) <= args.min_building_area
too_small_inclusive(ps, min) == ~FrLt(min, polygon_area(ps))

\* polygon_area(pts) < args.min_building_area
too_small(ps, min) == FrLt(polygon_area(ps), min)

\* append("buildings", tx, ty, ...)
Store(frag) == ar_appends' = Append(ar_appends, frag)

\* one part of a building record, up to the rectangle export or the simplifier
\* pts of the part: every point relative to the origin
ProjectPart ==
    /\ ar_pc = "start"
    /\ ar_pts' = Project(ar_part, ar_args.origin)
    /\ ar_pc' = "projected"
    /\ UNCHANGED <<ar_args, ar_part, ar_appends, simplifyVars>>

BuildingFilter ==
    /\ ar_pc = "projected"
    /\ ar_args.program = "shp"
    /\ LET P == ar_pts
           ts == ar_args.tile_size
       IN IF \/ Len(ar_part) < 3
             \/ too_small(P, ar_args.min_building_area)
             \/ FrLt(<<max_building_extent, 1>>, max_extent(P))
          THEN /\ ar_pc' = "done"
               /\ UNCHANGED <<ar_appends, simplifyVars>>
          ELSE IF ar_args.rect_buildings
          THEN LET o == pca_obb(P)
                   corners == IF o = None THEN BBoxCorners(P) ELSE o
                   c == PtOf(FMul(SumX(corners, 1, <<0, 1>>), <<1, 4>>),
                             FMul(SumY(corners, 1, <<0, 1>>), <<1, 4>>))
               IN /\ Store(Fragment(corners, c, ts))
                  /\ ar_pc' = "done"
                  /\ UNCHANGED simplifyVars
          ELSE /\ points' = P
               /\ epsilon' = simplify_meters
               /\ dp_pc' = "start"
               /\ ar_pc' = "simplify"
               /\ UNCHANGED <<ar_appends, keep, stack, dp_out>>
    /\ UNCHANGED <<ar_args, ar_part, ar_pts>>

\* after simplify_douglas_peucker: the ring without its closure, stored under
\* the tile of its vertex mean
BuildingStore ==
    /\ ar_pc = "simplify"
    /\ dp_pc = "done"
    /\ LET r == ring_without_duplicate_closure(dp_out)
       IN IF Len(r) < 3
          THEN UNCHANGED ar_appends
          ELSE Store(Fragment(r, Mean(r, Len(r)), ar_args.tile_size))
    /\ ar_pc' = "done"
    /\ UNCHANGED <<ar_args, ar_part, ar_pts, simplifyVars>>

\* geojson_to_tiles: one outer ring of a classified polygon
GeojsonPolygon ==
    /\ ar_pc = "projected"
    /\ ar_args.program = "geojson"
    /\ IF Len(ar_part) < 3
       THEN UNCHANGED ar_appends
       ELSE Store(Fragment(ar_pts, polygon_centroid(ar_pts), ar_args.tile_size))
    /\ ar_pc' = "done"
    /\ UNCHANGED <<ar_args, ar_part, ar_pts, simplifyVars>>

(***************************************************************************)
(* building_height_m of geojson_to_tiles.py.  props is the list of the     *)
(* feature's (key, value) entries; a value is None, a number Num(f) or a   *)
(* text Str(s) of characters.                                              *)
(***************************************************************************)
Num(f) == <<"num", f>>

Str(s) == <<"str", s>>

IsNum(v) == v # None /\ v[1] = "num"

IsStr(v) == v # None /\ v[1] = "str"

\* props.get(key)
get(p, key) ==
    IF \E i \in 1..Len(p) : p[i][1] = key
    THEN p[CHOOSE i \in 1..Len(p) : p[i][1] = key][2]
    ELSE None

\* s.replace(old, "") for a one-character old
replace(s, old) == SelectSeq(s, LAMBDA c : c # old)

IsDigit(c) == \E d \in 0..9 : DigitChars[d + 1] = c

RECURSIVE Pow10(_)
Pow10(k) == IF k = 0 THEN 1 ELSE 10 * Pow10(k - 1)

\* digits with at most one ".", at least one digit: its value, else None
ParseDecimal(s) ==
    LET dots == {i \in 1..Len(s) : s[i] = "."}
        digits == replace(s, ".")
    IN IF Cardinality(dots) > 1 \/ digits = <<>>
          \/ \E i \in 1..Len(digits) : ~IsDigit(digits[i])
       THEN None
       ELSE IF dots = {} THEN Fr(ParseNat(digits, 0), 1)
       ELSE Fr(ParseNat(digits, 0), Pow10(Len(s) - (CHOOSE i \in dots : TRUE)))

\* float(s) of a text without exponent, "inf", "nan" or "_": the value, or
\* None where float raises ValueError
float(s) ==
    LET t == Strip(s)
    IN IF t = <<>> THEN None
       ELSE IF Head(t) = "-"
            THEN LET v == ParseDecimal(Tail(t))
                 IN IF v = None THEN None ELSE <<-v[1], v[2]>>
       ELSE IF Head(t) = "+" THEN ParseDecimal(Tail(t))
       ELSE ParseDecimal(t)

\* bool(v) is false: the left operand of "or" is passed over
Falsy(v) == v = None \/ v = Num(<<0, 1>>) \/ v = Str(<<>>)

Or(a, b) == IF Falsy(a) THEN b ELSE a

DefaultHeight == <<12, 1>>

PerLevel == <<3, 1>>

\* the part of building_height_m after the height attribute was passed over
height_from_levels(p) ==
    LET levels == Or(get(p, "building:levels"), get(p, "levels"))
    IN IF IsNum(levels) /\ levels[2][1] > 0 THEN FrMul(levels[2], PerLevel)
       ELSE IF IsStr(levels) /\ float(Strip(levels[2])) # None
            THEN FrMul(float(Strip(levels[2])), PerLevel)
       ELSE DefaultHeight

\* the levels attribute read before the height attribute
building_height_levels_first(p) ==
    IF p = <<>> THEN DefaultHeight
    ELSE IF height_from_levels(p) # DefaultHeight THEN height_from_levels(p)
    ELSE LET h == get(p, "height")
         IN IF IsNum(h) /\ h[2][1] > 0 THEN h[2]
            ELSE IF IsStr(h) /\ float(Strip(replace(h[2], "m"))) # None
                 THEN float(Strip(replace(h[2], "m")))
            ELSE DefaultHeight

building_height_m(p) ==
    IF p = <<>> THEN DefaultHeight
    ELSE LET h == get(p, "height")
         IN IF IsNum(h) /\ h[2][1] > 0 THEN h[2]
            ELSE IF IsStr(h) /\ float(Strip(replace(h[2], "m"))) # None
                 THEN float(Strip(replace(h[2], "m")))
            ELSE height_from_levels(p)

HeightCall ==
    /\ h_pc = "start"
    /\ h_out' = building_height_m(props)
    /\ h_pc' = "done"
    /\ UNCHANGED props

(***************************************************************************)
(* iter_shp_records.  The geometry file is the list of the records laid    *)
(* out in it and the number of bytes present; a record is its content      *)
(* length in bytes, its shape type, numParts, numPoints and the part start *)
(* indexes.  Point i of a record stands for its i-th (x, y) pair.          *)
(***************************************************************************)
SHP_HEADER == 100
REC_HEADER == 8

Min2(a, b) == IF a < b THEN a ELSE b

Max2(a, b) == IF a > b THEN a ELSE b

\* len(f.read(n)) at position pos of a file of size bytes
read(size, pos, n) == Min2(n, Max2(0, size - pos))

\* the position just after the first k records
RECURSIVE Offset(_, _)
Offset(recs, k) ==
    IF k = 0 THEN SHP_HEADER
    ELSE Offset(recs, k - 1) + REC_HEADER + recs[k].bytes

\* points[start:end] of a list of n points
Slice(n, start, end) ==
    [i \in 1..Max2(0, Min2(end, n) - start) |-> start + i - 1]

\* what one complete record contributes to the stream: <<>> where the loop
\* continues, else the one ShpRecord yielded
decode(r) ==
    IF r.bytes < 4 THEN <<>>
    ELSE IF r.shape_type = 0 THEN <<>>
    ELSE IF r.shape_type \notin {3, 5, 13, 15} THEN <<>>
    ELSE IF r.bytes < 44 THEN <<>>
    ELSE LET points_idx == 44 + 4 * r.num_parts
         IN IF points_idx > r.bytes THEN <<>>
            ELSE LET part_starts == IF r.num_parts > 0 THEN r.part_starts ELSE <<0>>
                     n == Min2(r.num_points, (r.bytes - points_idx) \div 16)
                     segs == [p \in 1..Len(part_starts) |->
                                 Slice(n, part_starts[p],
                                       IF p + 1 <= Len(part_starts)
                                       THEN part_starts[p + 1] ELSE n)]
                 IN <<[shape_type |-> r.shape_type,
                       parts |-> SelectSeq(segs, LAMBDA seg : Len(seg) >= 2)]>>

\* a record's content is used whatever its length
content_unchecked(got, announced) == TRUE

\* len(content) == content_len_bytes
content_complete(got, announced) == got = announced

ShpOpen ==
    /\ shp_pc = "header"
    /\ IF read(shp_file.size, 0, SHP_HEADER) # SHP_HEADER
       THEN shp_pc' = "raised"
       ELSE shp_pc' = "records"
    /\ UNCHANGED <<shp_file, shp_pos, shp_out>>

\* one turn of the while loop
ShpNext ==
    /\ shp_pc = "records"
    /\ LET o == Offset(shp_file.recs, shp_pos)
           rec_header == read(shp_file.size, o, REC_HEADER)
       IN IF shp_pos = Len(shp_file.recs) \/ rec_header # REC_HEADER
          THEN shp_pc' = "end" /\ UNCHANGED <<shp_pos, shp_out>>
          ELSE LET r == shp_file.recs[shp_pos + 1]
                   got == read(shp_file.size, o + REC_HEADER, r.bytes)
               IN IF ~content_complete(got, r.bytes)
                  THEN shp_pc' = "end" /\ UNCHANGED <<shp_pos, shp_out>>
                  ELSE /\ shp_pos' = shp_pos + 1
                       /\ shp_out' = shp_out \o decode(r)
                       /\ UNCHANGED shp_pc
    /\ UNCHANGED shp_file

(***************************************************************************)
(* The categories of main.  shape_dir gives each category's file pair:     *)
(* each file is "absent", "short" (its header is cut), "empty" (a valid    *)
(* header, no record the reader yields) or "records".                      *)
(***************************************************************************)
InputCategories ==
    <<"buildings", "roads", "natural", "landuse", "waterways", "railways", "points", "places">>

InputCategorySet == {InputCategories[i] : i \in 1..Len(InputCategories)}

IndexOf(c) == CHOOSE i \in 1..Len(InputCategories) : InputCategories[i] = c

\* where main goes after category c
After(c) == IF IndexOf(c) < Len(InputCategories) THEN InputCategories[IndexOf(c) + 1] ELSE "close"

NoExit == 0 - 1

\* os.path.isfile(shp) and os.path.isfile(dbf)
BothPresent(pair) == pair.shp # "absent" /\ pair.dbf # "absent"

\* zip(iter_shp_records(shp), read_dbf_records(dbf)) raises ValueError: zip
\* asks the geometry reader first, and the attribute reader only once a
\* geometry record was yielded
ZipRaises(pair) ==
    \/ pair.shp = "short"
    \/ pair.shp = "records" /\ pair.dbf = "short"

\* the file pair is not there: the category is passed over
DrSkip ==
    /\ dr_pc \in InputCategorySet
    /\ ~BothPresent(shape_dir[dr_pc])
    /\ dr_pc' = After(dr_pc)
    /\ UNCHANGED <<shape_dir, dr_done, dr_merged, dr_tileset, dr_exit>>

\* the for loop over the zipped records runs to its end
DrProcess ==
    /\ dr_pc \in InputCategorySet
    /\ BothPresent(shape_dir[dr_pc])
    /\ ~ZipRaises(shape_dir[dr_pc])
    /\ dr_done' = dr_done \cup {dr_pc}
    /\ dr_pc' = After(dr_pc)
    /\ UNCHANGED <<shape_dir, dr_merged, dr_tileset, dr_exit>>

\* a reader raises ValueError; main has no handler, the interpreter prints
\* the traceback and exits with status 1
DrRaise ==
    /\ dr_pc \in InputCategorySet
    /\ BothPresent(shape_dir[dr_pc])
    /\ ZipRaises(shape_dir[dr_pc])
    /\ dr_pc' = "exit"
    /\ dr_exit' = 1
    /\ UNCHANGED <<shape_dir, dr_done, dr_merged, dr_tileset>>

\* writer.close()
DrClose ==
    /\ dr_pc = "close"
    /\ dr_pc' = "merge"
    /\ UNCHANGED <<shape_dir, dr_done, dr_merged, dr_tileset, dr_exit>>

\* write_tile_jsons
DrMerge ==
    /\ dr_pc = "merge"
    /\ dr_merged' = TRUE
    /\ dr_pc' = "tileset"
    /\ UNCHANGED <<shape_dir, dr_done, dr_tileset, dr_exit>>

\* tileset.json
DrTileset ==
    /\ dr_pc = "tileset"
    /\ dr_tileset' = TRUE
    /\ dr_pc' = "return"
    /\ UNCHANGED <<shape_dir, dr_done, dr_merged, dr_exit>>

\* return 0, raise SystemExit(main())
DrReturn ==
    /\ dr_pc = "return"
    /\ dr_exit' = 0
    /\ dr_pc' = "exit"
    /\ UNCHANGED <<shape_dir, dr_done, dr_merged, dr_tileset>>

(***************************************************************************)
(* read_dbf_records.  The attribute file is the record count of its        *)
(* header, the deletion flag of each record laid out in it ("live" or      *)
(* "deleted") and the number of bytes present.  The header announces       *)
(* NumFields field descriptors of FieldLen bytes each; the record at file  *)
(* position k stands for its attribute values.                             *)
(***************************************************************************)
DBF_HEADER == 32
FIELD_DESC == 32

\* the bytes before the first record: header, field descriptors, terminator
header_len == DBF_HEADER + FIELD_DESC * NumFields + 1

\* the deletion flag and the field values
record_len == 1 + NumFields * FieldLen

\* no record is taken as deleted
never_deleted(flag) == FALSE

\* rec[:1] == b"*"
is_deleted(flag) == flag = "deleted"

\* the header and the field list, up to the seek to the first record
DbfOpen ==
    /\ dbf_pc = "header"
    /\ IF read(dbf_file.size, 0, DBF_HEADER) # DBF_HEADER
       THEN dbf_pc' = "raised"
       ELSE IF dbf_file.size < header_len
            THEN dbf_pc' = "raised"
            ELSE dbf_pc' = "records"
    /\ UNCHANGED <<dbf_file, dbf_pos, dbf_out>>

\* one turn of "for _ in range(num_records)"
DbfNext ==
    /\ dbf_pc = "records"
    /\ IF dbf_pos >= dbf_file.num_records
       THEN dbf_pc' = "end" /\ UNCHANGED <<dbf_pos, dbf_out>>
       ELSE LET rec == read(dbf_file.size, header_len + dbf_pos * record_len, record_len)
            IN IF rec # record_len
               THEN dbf_pc' = "end" /\ UNCHANGED <<dbf_pos, dbf_out>>
               ELSE /\ dbf_pos' = dbf_pos + 1
                    /\ dbf_out' = IF is_deleted(dbf_file.flags[dbf_pos + 1])
                                  THEN dbf_out
                                  ELSE Append(dbf_out, dbf_pos + 1)
                    /\ UNCHANGED dbf_pc
    /\ UNCHANGED dbf_file

(***************************************************************************)
(* for shp_rec, dbf_rec in zip(iter_shp_records(..), read_dbf_records(..)) *)
(* zip asks the geometry generator first and the attribute generator only  *)
(* once the geometry generator has yielded; a generator that ends ends the *)
(* loop, one that raises ends main.  step is one step of the generator.    *)
(***************************************************************************)
ZipShp(step) ==
    /\ zip_pc = "shp"
    /\ step
    /\ zip_pc' = IF shp_pc' = "raised" THEN "raised"
                 ELSE IF shp_pc' = "end" THEN "done"
                 ELSE IF Len(shp_out') > Len(shp_out) THEN "dbf"
                 ELSE "shp"
    /\ UNCHANGED <<dbfVars, pairs>>

ZipDbf(step) ==
    /\ zip_pc = "dbf"
    /\ step
    /\ zip_pc' = IF dbf_pc' = "raised" THEN "raised"
                 ELSE IF dbf_pc' = "end" THEN "done"
                 ELSE IF Len(dbf_out') > Len(dbf_out) THEN "shp"
                 ELSE "dbf"
    /\ pairs' = IF Len(dbf_out') > Len(dbf_out)
                THEN Append(pairs, <<shp_pos, dbf_pos'>>)
                ELSE pairs
    /\ UNCHANGED shpVars

(***************************************************************************)
(* A second run of main on the same input into the same output root.  The  *)
(* input is the sequence of append calls of the first run: call k of the   *)
(* second run appends the same line to the same path as call k of the      *)
(* first.                                                                  *)
(***************************************************************************)
\* the number of append calls of the first run
FirstCalls == SumLen(rr_first.appended, Paths)

\* the path call k of the first run appended to
ScriptPath(k) == CHOOSE p \in Paths : \E i \in 1..Len(rr_first.appended[p]) :
                                          rr_first.appended[p][i] = k

\* main starts again: --clean removes tiles_dir and tmp_dir, and a new
\* LruAppendWriter is made
Restart(clean, keep_next) ==
    /\ pc = "done"
    /\ rr_run = 1
    /\ rr_run' = 2
    /\ rr_first' = [appended |-> appended, tiles |-> tiles_out]
    /\ pc' = "run"
    /\ keep_tmp' = keep_next
    /\ IF clean
       THEN /\ tmp_files' = {}
            /\ content' = [p \in Paths |-> <<>>]
            /\ tiles_out' = [t \in {} |-> <<>>]
       ELSE UNCHANGED <<tmp_files, content, tiles_out>>
    /\ files' = <<>>
    /\ buffers' = [p \in Paths |-> <<>>]
    /\ appended' = [p \in Paths |-> <<>>]
    /\ opens' = [p \in Paths |-> 0]
    /\ evicted' = NoPath
    /\ written' = NoPath
    /\ UNCHANGED max_open

\* the first run's append calls
FirstAppend(path, flush) ==
    /\ rr_run = 1
    /\ Calls < MaxRerunAppends
    /\ AppendLine(path, flush)
    /\ UNCHANGED rerunVars

\* the second run's next append call
ReplayAppend(flush) ==
    /\ rr_run = 2
    /\ Calls < FirstCalls
    /\ AppendLine(ScriptPath(Calls + 1), flush)
    /\ UNCHANGED rerunVars

\* writer.close() once the input has been processed
RerunClose ==
    /\ rr_run = 2 => Calls = FirstCalls
    /\ Close
    /\ UNCHANGED rerunVars

(***************************************************************************)
(* The clip filter of main.  A feature is its category, the building       *)
(* export mode, and its points in local metres as they reach the filter;   *)
(* the clip polygon is in absolute metres, None when no README is given.   *)
(***************************************************************************)
\* (x + origin_x, y + origin_y)
to_abs(p, o) == Normal(p[1] * o[3] + o[1] * p[3], p[2] * o[3] + o[2] * p[3], p[3] * o[3])

\* sum(p[0] for p in ps) and sum(p[1] for p in ps) from index i on, exact
RECURSIVE SumFrom(_, _, _)
SumFrom(ps, coord, i) ==
    IF i > Len(ps) THEN <<0, 1>>
    ELSE FrAdd(Fr(ps[i][coord], ps[i][3]), SumFrom(ps, coord, i + 1))

\* (sum of x / len, sum of y / len)
ring_mean(ps) ==
    PtOf(FrDiv(SumFrom(ps, 1, 1), <<Len(ps), 1>>), FrDiv(SumFrom(ps, 2, 1), <<Len(ps), 1>>))

\* points[::step]
Stride(ps, step) == [i \in 1..((Len(ps) + step - 1) \div step) |-> ps[(i - 1) * step + 1]]

\* keep_ring_by_clip: the centroid or a vertex out of every len // 8 is inside
keep_ring_by_clip(ring_local, clip, o) ==
    IF clip = None THEN TRUE
    ELSE \/ point_in_polygon(to_abs(ring_mean(ring_local), o), clip)
         \/ LET sampled == Stride(ring_local, Max2(1, Len(ring_local) \div 8))
            IN \E i \in 1..Len(sampled) : point_in_polygon(to_abs(sampled[i], o), clip)

\* keep_line_by_clip: a point out of every len // 16 is inside
keep_line_by_clip(points_local, clip, o) ==
    IF clip = None THEN TRUE
    ELSE LET sampled == Stride(points_local, Max2(1, Len(points_local) \div 16))
         IN \E i \in 1..Len(sampled) : point_in_polygon(to_abs(sampled[i], o), clip)

\* buildings: the rectangle export appends without a clip test
ClipBuilding ==
    /\ cl_pc = "start"
    /\ cl_in.category = "buildings"
    /\ cl_appended' = IF cl_in.rect_buildings THEN TRUE
                      ELSE keep_ring_by_clip(cl_in.points, cl_in.clip, cl_in.origin)
    /\ cl_pc' = "done"
    /\ UNCHANGED cl_in

\* natural and landuse polygons: waters and landcovers
ClipLandcover ==
    /\ cl_pc = "start"
    /\ cl_in.category \in {"waters", "landcovers"}
    /\ cl_appended' = keep_ring_by_clip(cl_in.points, cl_in.clip, cl_in.origin)
    /\ cl_pc' = "done"
    /\ UNCHANGED cl_in

\* roads, waterways and railways
ClipLine ==
    /\ cl_pc = "start"
    /\ cl_in.category \in {"roads", "waterways", "railways"}
    /\ cl_appended' = keep_line_by_clip(cl_in.points, cl_in.clip, cl_in.origin)
    /\ cl_pc' = "done"
    /\ UNCHANGED cl_in

\* points of interest: the point itself is tested
ClipPoi ==
    /\ cl_pc = "start"
    /\ cl_in.category = "pois"
    /\ cl_appended' = (cl_in.clip = None
                       \/ point_in_polygon(to_abs(cl_in.points[1], cl_in.origin), cl_in.clip))
    /\ cl_pc' = "done"
    /\ UNCHANGED cl_in

SplitIdle ==
    /\ sp_pc = "idle" /\ pts = <<>> /\ tile_size = 1 /\ sp_i = 0
    /\ current_segment = <<>> /\ current_tile = <<0, 0>> /\ emitted = <<>>

SimplifyIdle ==
    /\ dp_pc = "idle" /\ points = <<>> /\ epsilon = 0 /\ keep = <<>>
    /\ stack = <<>> /\ dp_out = <<>>

WriterIdle ==
    /\ pc = "idle" /\ max_open = 0 /\ keep_tmp = FALSE /\ files = <<>>
    /\ buffers = [p \in Paths |-> <<>>] /\ tmp_files = {}
    /\ content = [p \in Paths |-> <<>>] /\ tiles_out = [t \in {} |-> <<>>]
    /\ appended = [p \in Paths |-> <<>>] /\ opens = [p \in Paths |-> 0]
    /\ evicted = NoPath /\ written = NoPath

RingIdle ==
    /\ rg_pc = "idle" /\ ring0 = <<>> /\ ring = <<>> /\ query = <<0, 0, 1>>
    /\ rg_rot = 0 /\ rg_first = <<>> /\ rg_now = <<>> /\ mant = 0

AreaIdle ==
    /\ ar_pc = "idle" /\ ar_args = <<>> /\ ar_part = <<>> /\ ar_pts = <<>>
    /\ ar_appends = <<>>

HeightIdle ==
    /\ h_pc = "idle" /\ props = <<>> /\ h_out = <<0, 1>>

ShpIdle ==
    /\ shp_pc = "idle" /\ shp_file = <<>> /\ shp_pos = 0 /\ shp_out = <<>>

DriverIdle ==
    /\ dr_pc = "idle" /\ shape_dir = <<>> /\ dr_done = {} /\ dr_merged = FALSE
    /\ dr_tileset = FALSE /\ dr_exit = NoExit

DbfIdle == dbf_pc = "idle" /\ dbf_file = <<>> /\ dbf_pos = 0 /\ dbf_out = <<>>

ZipIdle == zip_pc = "idle" /\ pairs = <<>>

RerunIdle == rr_run = 0 /\ rr_first = <<>>

ClipIdle == cl_pc = "idle" /\ cl_in = <<>> /\ cl_appended = FALSE

TailIdle == DbfIdle /\ ZipIdle /\ RerunIdle /\ ClipIdle

LaterIdle == RingIdle /\ AreaIdle /\ HeightIdle /\ ShpIdle /\ DriverIdle /\ TailIdle

\* main up to the first feature: an empty intermediate directory, a new writer
Init ==
    /\ pc = "run"
    /\ max_open \in 0..MaxOpen
    /\ keep_tmp \in BOOLEAN
    /\ files = <<>>
    /\ buffers = [p \in Paths |-> <<>>]
    /\ tmp_files = {}
    /\ content = [p \in Paths |-> <<>>]
    /\ tiles_out = [t \in {} |-> <<>>]
    /\ appended = [p \in Paths |-> <<>>]
    /\ opens = [p \in Paths |-> 0]
    /\ evicted = NoPath
    /\ written = NoPath
    /\ SplitIdle
    /\ SimplifyIdle
    /\ LaterIdle

Next ==
    \/ \E path \in Paths, flush \in BOOLEAN :
          AppendLine(path, flush) /\ UNCHANGED <<splitVars, simplifyVars, laterVars>>
    \/ Close /\ UNCHANGED <<splitVars, simplifyVars, laterVars>>
    \/ Merge /\ UNCHANGED <<splitVars, simplifyVars, laterVars>>
    \/ Cleanup /\ UNCHANGED <<splitVars, simplifyVars, laterVars>>

Spec == Init /\ [][Next]_vars

(***************************************************************************)
(* Claims about the streaming aggregator, checked under Spec.              *)
(***************************************************************************)
OpenSet == {files[i] : i \in 1..Len(files)}

LastWrite(p) == appended[p][Len(appended[p])]

RECURSIVE ExpectedText(_)
ExpectedText(objs) ==
    IF objs = <<>> THEN <<>>
    ELSE Dumps(Head(objs)) \o <<"\n">> \o ExpectedText(Tail(objs))

\* C1: whenever append_line has returned, at most max_open channels are open.
C1_OpenChannelsBounded == Len(files) <= max_open

C1_Witness == evicted # NoPath /\ max_open >= 1 /\ Len(files) = max_open

\* C2: after close(), starting from no files, each path's file holds exactly
\* the lines appended to it, in call order and each once, and a path never
\* appended to has no file, however often the channel was evicted and reopened.
C2_FileHoldsAppendedLines ==
    pc \in {"closed", "merged"} =>
        \A p \in Paths :
            IF appended[p] = <<>> THEN p \notin tmp_files
            ELSE p \in tmp_files /\ content[p] = ExpectedText(appended[p])

C2_Witness ==
    /\ pc = "closed"
    /\ \E p \in Paths : opens[p] >= 2 /\ Len(appended[p]) >= 2

\* C3: the channel an append_line evicts was last written before every channel
\* still open, and for max_open >= 1 it is not the channel just written.
C3_EvictsLeastRecentlyWritten ==
    (pc = "run" /\ evicted # NoPath) =>
        /\ \A q \in OpenSet : LastWrite(evicted) < LastWrite(q)
        /\ ~IsOpen(files, evicted)
        /\ (max_open >= 1 => evicted # written)

C3_Witness ==
    /\ pc = "run" /\ evicted # NoPath /\ max_open >= 2
    /\ \E q \in OpenSet : appended[q][1] < appended[evicted][1]

\* C4: after a run from an empty intermediate directory the merge pass has
\* written one TileRecord for each tile that received a fragment in some
\* category and for no other tile, and each array of a record holds exactly the
\* fragments appended under (category, tx, ty), in append order.
C4_MergeEmitsAppendedFragments ==
    pc \in {"merged", "done"} =>
        /\ DOMAIN tiles_out = {t \in Tiles : \E c \in Categories : appended[FileName(c, t[1], t[2])] # <<>>}
        /\ \A t \in DOMAIN tiles_out : \A key \in PayloadKeys :
               tiles_out[t][key] = IF key \in Categories
                                   THEN appended[FileName(key, t[1], t[2])]
                                   ELSE <<>>

C4_Witness ==
    /\ pc = "merged"
    /\ Cardinality(DOMAIN tiles_out) = 2
    /\ \E t \in DOMAIN tiles_out :
          /\ t[1] < 0
          /\ \E k1, k2 \in PayloadKeys :
                k1 # k2 /\ Len(tiles_out[t][k1]) >= 2 /\ Len(tiles_out[t][k2]) >= 1


(***************************************************************************)
(* split_polyline_by_tiles on bounded inputs: every polyline of up to      *)
(* MaxPts vertices on a small grid with tile size 4, and straight roads of *)
(* length 3000 with tile size 1000.                                        *)
(***************************************************************************)
Xs == -1..MaxX

Ys == {-1, 0}

Grid == {Pt(x, y) : x \in Xs, y \in Ys}

Polylines == UNION {[1..n -> Grid] : n \in 0..MaxPts}

\* integer vectors of length 3000, in every orientation
RoadVectors ==
    LET base == {<<3000, 0>>, <<2880, 840>>, <<2808, 1056>>, <<2400, 1800>>}
        signs == {-1, 1}
    IN UNION {{<<v[1] * sx, v[2] * sy>>, <<v[2] * sx, v[1] * sy>>} :
                 v \in base, sx \in signs, sy \in signs}

RoadOffsets == {0, 60, 119, 120, 500, 880, 940, 999}

Roads == {<<Pt(x, y), Pt(x + v[1], y + v[2])>> :
             x \in RoadOffsets, y \in RoadOffsets, v \in RoadVectors}

SplitInputs == {<<4, pl>> : pl \in Polylines} \cup {<<1000, r>> : r \in Roads}

InitSplit ==
    /\ WriterIdle
    /\ SimplifyIdle
    /\ LaterIdle
    /\ sp_pc = "start"
    /\ \E in \in SplitInputs : tile_size = in[1] /\ pts = in[2]
    /\ sp_i = 0
    /\ current_segment = <<>>
    /\ current_tile = <<0, 0>>
    /\ emitted = <<>>

NextSplit ==
    \/ SplitBegin /\ UNCHANGED <<writerVars, simplifyVars, laterVars>>
    \/ SplitVertex /\ UNCHANGED <<writerVars, simplifyVars, laterVars>>
    \/ SplitEnd /\ UNCHANGED <<writerVars, simplifyVars, laterVars>>

SpecSplit == InitSplit /\ [][NextSplit]_vars

(***************************************************************************)
(* Claims about split_polyline_by_tiles, checked under SpecSplit.          *)
(***************************************************************************)
FragTile(k) == emitted[k][1]

FragPts(k) == emitted[k][2]

LastPt(seg) == seg[Len(seg)]

InTile(p, tile) == tile_xy(p, tile_size) = tile

\* p lies strictly inside the open square of the tile
InInterior(p, tile) ==
    /\ tile[1] * tile_size * p[3] < p[1] /\ p[1] < (tile[1] + 1) * tile_size * p[3]
    /\ tile[2] * tile_size * p[3] < p[2] /\ p[2] < (tile[2] + 1) * tile_size * p[3]

\* C5: in emission order, the last point of each fragment is the first point
\* of the next fragment.
C5_ConsecutiveFragmentsShareEndpoint ==
    \A k \in 1..(Len(emitted) - 1) : LastPt(FragPts(k)) = FragPts(k + 1)[1]

C5_Witness ==
    /\ sp_pc = "done" /\ tile_size = 4 /\ Len(emitted) >= 3
    /\ \E k \in 1..(Len(emitted) - 1) : FragPts(k + 1)[1][3] > 1
    /\ \E k \in 1..(Len(emitted) - 1) : FragPts(k + 1)[1][3] = 1

\* C6 as stated: every point of every fragment lies in the fragment's tile.
C6_EveryPointInTile ==
    \A k \in 1..Len(emitted) :
        \A j \in 1..Len(FragPts(k)) : InTile(FragPts(k)[j], FragTile(k))

\* C6, amended: every point of a fragment other than its last point lies in
\* the fragment's tile (the last point is the cut point, which may lie in the
\* tile of the next fragment).
C6_AllButLastPointInTile ==
    \A k \in 1..Len(emitted) :
        \A j \in 1..(Len(FragPts(k)) - 1) : InTile(FragPts(k)[j], FragTile(k))

C6_Witness ==
    /\ sp_pc = "done"
    /\ \E k \in 1..Len(emitted) :
          /\ Len(FragPts(k)) >= 3
          /\ ~InTile(LastPt(FragPts(k)), FragTile(k))

\* the emitted fragments in emission order, each shared endpoint once
RECURSIVE Joined(_)
Joined(k) ==
    IF k = 0 THEN <<>>
    ELSE IF k = 1 THEN FragPts(1)
    ELSE Joined(k - 1) \o Tail(FragPts(k))

\* q lies on the segment from vertex a to vertex b
OnSegment(q, a, b) ==
    LET dx == b[1] - a[1]
        dy == b[2] - a[2]
        qx == q[1] - a[1] * q[3]
        qy == q[2] - a[2] * q[3]
        dot == qx * dx + qy * dy
    IN /\ qx * dy - qy * dx = 0
       /\ 0 <= dot
       /\ dot <= (dx * dx + dy * dy) * q[3]

\* c is the vertices p in their order, with points of the segment from the
\* vertex before to Head(p) between them
RECURSIVE Embeds(_, _, _)
Embeds(c, p, prev) ==
    IF c = <<>> THEN p = <<>>
    ELSE /\ p # <<>>
         /\ \/ Head(c) = Head(p) /\ Embeds(Tail(c), Tail(p), Head(p))
            \/ OnSegment(Head(c), prev, Head(p)) /\ Embeds(Tail(c), p, prev)

\* C26: for a polyline of at least 2 points the emitted fragments, joined in
\* emission order with each shared endpoint once, start at the first vertex,
\* end at the last vertex and hold every vertex in the original order; the
\* other points lie on the original segments.
C26_NoVertexLost ==
    (sp_pc = "done" /\ Len(pts) >= 2) =>
        LET c == Joined(Len(emitted))
        IN /\ c # <<>>
           /\ c[1] = pts[1]
           /\ c[Len(c)] = pts[Len(pts)]
           /\ Embeds(Tail(c), Tail(pts), pts[1])

C26_Witness ==
    /\ sp_pc = "done" /\ Len(pts) = 3 /\ Len(emitted) >= 3
    /\ Len(Joined(Len(emitted))) >= 5
    /\ \E k \in 1..Len(emitted) : Len(FragPts(k)) >= 3

\* C27: in every fragment every point except possibly the last one lies in
\* the fragment's tile, and every fragment has at least 2 points.
C27_FragmentsConfinedWithTwoPoints ==
    \A k \in 1..Len(emitted) :
        /\ Len(FragPts(k)) >= 2
        /\ \A j \in 1..(Len(FragPts(k)) - 1) : InTile(FragPts(k)[j], FragTile(k))

\* the last vertex opened a segment of its own, which is discarded
C27_Witness ==
    /\ sp_pc = "done" /\ Len(current_segment) = 1 /\ Len(emitted) >= 2
    /\ \E k \in 1..Len(emitted) : ~InTile(LastPt(FragPts(k)), FragTile(k))

\* the tiles whose interior holds a vertex or the midpoint of a segment
CrossedTiles ==
    {tile_xy(pts[i], tile_size) : i \in {j \in 1..Len(pts) :
        InInterior(pts[j], tile_xy(pts[j], tile_size))}}
    \cup
    {tile_xy(interpolate_point(pts[i], pts[i + 1], 1, 2), tile_size) :
        i \in {j \in 1..(Len(pts) - 1) :
            LET m == interpolate_point(pts[j], pts[j + 1], 1, 2)
            IN InInterior(m, tile_xy(m, tile_size))}}

\* C7: every tile whose interior the polyline crosses has a fragment keyed to it.
C7_EveryCrossedTileHasFragment ==
    (sp_pc = "done" /\ Len(pts) >= 2) =>
        \A tile \in CrossedTiles : \E k \in 1..Len(emitted) : FragTile(k) = tile

\* a straight two-vertex road of length 3000 whose end tiles are two tile
\* boundaries apart
IsRoadCrossingTwo ==
    /\ tile_size = 1000 /\ Len(pts) = 2
    /\ Dist2(pts[1], pts[2]) = <<3000 * 3000, 1>>
    /\ LET a == tile_xy(pts[1], tile_size)
           b == tile_xy(pts[2], tile_size)
       IN Abs(a[1] - b[1]) + Abs(a[2] - b[2]) = 2

\* the shared endpoint p of fragments k and k + 1 lies within 0.4 x tile size
\* of the boundary between their tiles: the tiles are neighbours along one
\* axis, and p is at most 2/5 tile_size from the line between them
NearBoundary(k) ==
    LET p == LastPt(FragPts(k))
        a == FragTile(k)
        b == FragTile(k + 1)
        Near(c) == LET line == (IF a[c] > b[c] THEN a[c] ELSE b[c]) * tile_size
                   IN 5 * Abs(p[c] - line * p[3]) <= 2 * tile_size * p[3]
    IN /\ Abs(a[1] - b[1]) + Abs(a[2] - b[2]) = 1
       /\ a[1] # b[1] => Near(1)
       /\ a[2] # b[2] => Near(2)

\* C8 as stated: exactly 3 fragments, each confined to one tile, consecutive
\* fragments sharing an endpoint within 0.4 x tile size of the boundary crossed.
C8_RoadThreeConfinedFragments ==
    (sp_pc = "done" /\ IsRoadCrossingTwo) =>
        /\ Len(emitted) = 3
        /\ \A k \in 1..Len(emitted) :
              \A j \in 1..Len(FragPts(k)) : InTile(FragPts(k)[j], FragTile(k))
        /\ \A k \in 1..(Len(emitted) - 1) :
              LastPt(FragPts(k)) = FragPts(k + 1)[1] /\ NearBoundary(k)

\* C8, amended: exactly 3 fragments, each with all its points other than the
\* last in one tile (three different tiles), consecutive fragments sharing an
\* endpoint within 0.4 x tile size of the boundary crossed.
C8_RoadThreeFragments ==
    (sp_pc = "done" /\ IsRoadCrossingTwo) =>
        /\ Len(emitted) = 3
        /\ \A k \in 1..Len(emitted) :
              \A j \in 1..(Len(FragPts(k)) - 1) : InTile(FragPts(k)[j], FragTile(k))
        /\ \A k \in 1..(Len(emitted) - 1) :
              LastPt(FragPts(k)) = FragPts(k + 1)[1] /\ NearBoundary(k)

C8_Witness == sp_pc = "done" /\ IsRoadCrossingTwo /\ Len(emitted) = 3


(***************************************************************************)
(* simplify_douglas_peucker on bounded inputs: every point list of up to   *)
(* MaxLen points on a 3 x 2 grid, with tolerances -1, 0, 1/2 and 4/5.      *)
(***************************************************************************)
DpGrid == {Pt(x, y) : x \in 0..2, y \in 0..1}

PointLists == UNION {[1..n -> DpGrid] : n \in 0..MaxLen}

Epsilons == {<<-1, 1>>, <<0, 1>>, <<1, 2>>, <<4, 5>>}

InitSimplify ==
    /\ WriterIdle
    /\ SplitIdle
    /\ LaterIdle
    /\ dp_pc = "start"
    /\ points \in PointLists
    /\ epsilon \in Epsilons
    /\ keep = <<>>
    /\ stack = <<>>
    /\ dp_out = <<>>

NextSimplify ==
    \/ DPBegin /\ UNCHANGED <<writerVars, splitVars, laterVars>>
    \/ DPStep /\ UNCHANGED <<writerVars, splitVars, laterVars>>
    \/ DPEnd /\ UNCHANGED <<writerVars, splitVars, laterVars>>

SpecSimplify == InitSimplify /\ [][NextSimplify]_vars

\* point lists of every length up to MaxLen over three points not in line,
\* repeated and collinear points among them
TermGrid == {Pt(0, 0), Pt(1, 1), Pt(2, 0)}

TermPointLists == UNION {[1..n -> TermGrid] : n \in 0..MaxLen}

InitSimplifyFair ==
    /\ WriterIdle
    /\ SplitIdle
    /\ LaterIdle
    /\ dp_pc = "start"
    /\ points \in TermPointLists
    /\ epsilon \in Epsilons
    /\ keep = <<>>
    /\ stack = <<>>
    /\ dp_out = <<>>

\* the call runs on: the loop is not suspended between two iterations
SpecSimplifyFair == InitSimplifyFair /\ [][NextSimplify]_vars /\ WF_vars(NextSimplify)

(***************************************************************************)
(* Claims about simplify_douglas_peucker, checked under SpecSimplify.      *)
(***************************************************************************)
RECURSIVE IsSubsequence(_, _)
IsSubsequence(a, b) ==
    IF a = <<>> THEN TRUE
    ELSE IF b = <<>> THEN FALSE
    ELSE IF Head(a) = Head(b) THEN IsSubsequence(Tail(a), Tail(b))
    ELSE IsSubsequence(a, Tail(b))

\* C9: the output is a subsequence of the input (same points, same relative
\* order) that starts with the input's first point and ends with its last.
C9_OutputIsSubsequenceWithEnds ==
    dp_pc = "done" =>
        /\ IsSubsequence(dp_out, points)
        /\ points # <<>> =>
              /\ dp_out # <<>>
              /\ dp_out[1] = points[1]
              /\ LastPt(dp_out) = LastPt(points)

C9_Witness ==
    /\ dp_pc = "done" /\ epsilon[1] > 0
    /\ Len(dp_out) >= 3 /\ Len(dp_out) < Len(points)
    /\ points[1] # LastPt(points)

NoPointOnChord ==
    LET P == IF points = <<>> THEN <<>> ELSE dp_pts(points)
    IN \A s \in 1..Len(P) : \A e \in 1..Len(P) : \A i \in 1..Len(P) :
          (s < i /\ i < e) => point_line_distance2(P[i], P[s], P[e])[1] # 0

RingGrid == {Pt(2 * x, 2 * y) : x \in 0..MaxCoord, y \in 0..1}

OpenRings == UNION {[1..n -> RingGrid] : n \in 0..MaxRing}

\* every point list, and every non-empty one with its first point repeated at the end
Rings == OpenRings \cup {Append(r, r[1]) : r \in OpenRings \ {<<>>}}

Queries == {Pt(x, y) : x \in 0..(2 * MaxCoord), y \in 0..2}

InitRing ==
    /\ WriterIdle /\ SplitIdle /\ SimplifyIdle
    /\ AreaIdle /\ HeightIdle /\ ShpIdle /\ DriverIdle /\ TailIdle
    /\ rg_pc = "start"
    /\ ring0 \in Rings
    /\ ring = ring0
    /\ query \in Queries
    /\ rg_rot = 0
    /\ rg_first = <<>>
    /\ rg_now = <<>>
    /\ mant = 0

notRing == <<writerVars, splitVars, simplifyVars, areaVars, heightVars, shpVars, driverVars, tailVars>>

NextRing ==
    \/ PipBegin /\ UNCHANGED notRing
    \/ PipUnclose /\ UNCHANGED notRing

SpecRing == InitRing /\ [][NextRing]_vars

IsClosedRing(r) == Len(r) >= 2 /\ r[1] = r[Len(r)]

InitMeasure ==
    /\ WriterIdle /\ SplitIdle /\ SimplifyIdle
    /\ AreaIdle /\ HeightIdle /\ ShpIdle /\ DriverIdle /\ TailIdle
    /\ rg_pc = "start"
    /\ ring0 \in Rings
    /\ ring = ring0
    /\ query = Pt(0, 0)
    /\ rg_rot = 0
    /\ rg_first = <<>>
    /\ rg_now = <<>>
    /\ mant \in {0, MantBits}

NextMeasure ==
    \/ MeasureBegin /\ UNCHANGED notRing
    \/ MeasureRotate /\ UNCHANGED notRing

SpecMeasure == InitMeasure /\ [][NextMeasure]_vars

min_building_area == 12

\* the square (0,0)-(100,0)-(100,100)-(0,100) and its centroid
Square100 == <<Pt(0, 0), Pt(100, 0), Pt(100, 100), Pt(0, 100)>>

SquareCentroid == Pt(50, 50)

\* a ring wider than --max-building-extent
BigSquare == <<Pt(0, 0), Pt(600, 0), Pt(600, 600), Pt(0, 600)>>

AreaYs == {0, 2, 3, 4}

AreaGrid == {Pt(4 * x, y) : x \in 0..1, y \in AreaYs}

OpenParts == UNION {[1..n -> AreaGrid] : n \in 2..MaxRing}

Parts == OpenParts \cup {Append(r, r[1]) : r \in OpenParts}

\* <<tile size, origin, ring>>
AreaInputs ==
    {<<1000, SquareCentroid, Square100>>, <<1000, Pt(0, 0), BigSquare>>}
        \cup {<<4, o, r>> : o \in {Pt(0, 0), Pt(2, 2)}, r \in Parts}

\* rectangles with sides along the axes, each corner once: their principal
\* axes are the coordinate axes (the axes of other rings, a rectangle with a
\* repeated corner among them, are irrational, and the rectangle export is
\* modelled for these only)
Rectangles ==
    {<<Pt(x0, y0), Pt(x1, y0), Pt(x1, y1), Pt(x0, y1)>> :
        x0 \in {0, 4}, x1 \in {0, 4}, y0 \in AreaYs, y1 \in AreaYs}

RectInputs ==
    {<<1000, SquareCentroid, Square100>>, <<1000, Pt(0, 0), BigSquare>>}
        \cup {<<4, o, r>> : o \in {Pt(0, 0), Pt(2, 2)}, r \in Rectangles}

\* the state when a part is taken up
InitArea ==
    /\ WriterIdle /\ SplitIdle /\ SimplifyIdle
    /\ RingIdle /\ HeightIdle /\ ShpIdle /\ DriverIdle /\ TailIdle
    /\ ar_pc = "start"
    /\ \E program \in {"shp", "geojson"}, rect \in BOOLEAN :
          \E in \in (IF rect THEN RectInputs ELSE AreaInputs) :
              /\ rect => program = "shp"
              /\ ar_args = [program |-> program, rect_buildings |-> rect,
                            tile_size |-> in[1], origin |-> in[2],
                            min_building_area |-> <<min_building_area, 1>>]
              /\ ar_part = in[3]
    /\ ar_pts = <<>>
    /\ ar_appends = <<>>

notArea == <<writerVars, splitVars, ringVars, heightVars, shpVars, driverVars, tailVars>>

NextArea ==
    \/ ProjectPart /\ UNCHANGED notArea
    \/ BuildingFilter /\ UNCHANGED notArea
    \/ DPBegin /\ UNCHANGED <<areaVars, notArea>>
    \/ DPStep /\ UNCHANGED <<areaVars, notArea>>
    \/ DPEnd /\ UNCHANGED <<areaVars, notArea>>
    \/ BuildingStore /\ UNCHANGED notArea
    \/ GeojsonPolygon /\ UNCHANGED notArea

SpecArea == InitArea /\ [][NextArea]_vars

\* the run of the scenario: the square, tile size 1000, origin at its centroid
SquareScenario ==
    /\ ar_pc = "done"
    /\ ar_part = Square100
    /\ ar_args.origin = SquareCentroid
    /\ ar_args.tile_size = 1000

\* the sum of the stored vertices of fragment f
VertexSum(f) == PtOf(SumX(f[3], 1, <<0, 1>>), SumY(f[3], 1, <<0, 1>>))

\* C12 as stated: in the scenario the square is stored once, under tile (0,0),
\* and its tile-local vertices sum to (0,0).
C12_SquareLocalVerticesSumToZero ==
    SquareScenario =>
        /\ Len(ar_appends) = 1
        /\ ar_appends[1][1] = 0 /\ ar_appends[1][2] = 0
        /\ VertexSum(ar_appends[1]) = Pt(0, 0)

\* C12, amended: in the scenario the square is stored once, under tile (0,0),
\* with its four vertices relative to the tile centre (500,500); they sum to
\* (-2000,-2000).
C12_SquareLocalVerticesRelativeToTileCentre ==
    SquareScenario =>
        /\ Len(ar_appends) = 1
        /\ ar_appends[1][1] = 0 /\ ar_appends[1][2] = 0
        /\ {ar_appends[1][3][i] : i \in 1..Len(ar_appends[1][3])}
              = {Pt(-550, -550), Pt(-450, -550), Pt(-450, -450), Pt(-550, -450)}
        /\ Len(ar_appends[1][3]) = 4
        /\ VertexSum(ar_appends[1]) = Pt(-2000, -2000)

\* the scenario has run through the simplifier and stored its fragment
C12_Witness ==
    /\ SquareScenario
    /\ ar_args.program = "shp"
    /\ ~ar_args.rect_buildings
    /\ dp_pc = "done"
    /\ Len(ar_appends) = 1

IsBuildingPart == ar_args.program = "shp" /\ Len(ar_part) >= 3

PartArea == polygon_area(ar_pts)

\* C13: a building ring whose area is below --min-building-area stores no
\* fragment, with and without --rect-buildings; a ring whose area equals the
\* minimum passes the filter: it is stored as a rectangle or handed to the
\* simplifier.
C13_SmallBuildingsDropped ==
    (ar_pc \in {"simplify", "done"} /\ IsBuildingPart) =>
        /\ FrLt(PartArea, ar_args.min_building_area) => ar_appends = <<>> /\ dp_pc = "idle"
        /\ PartArea = ar_args.min_building_area =>
              IF ar_args.rect_buildings THEN Len(ar_appends) = 1 ELSE dp_pc # "idle"

\* a ring of area 8 with minimum 12, exported as rectangles: nothing stored
C13_Witness ==
    /\ ar_pc = "done"
    /\ IsBuildingPart
    /\ ar_args.rect_buildings
    /\ PartArea = <<8, 1>>
    /\ ar_args.min_building_area = <<12, 1>>
    /\ ar_appends = <<>>

(***************************************************************************)
(* Specification SpecHeight: building_height_m on one property map.        *)
(***************************************************************************)
HeightChars == {"5", ".", "m", " ", "-"}

LevelChars == {"3", " ", "-", "m"}

TextsOver(chars, n) == UNION {[1..k -> chars] : k \in 0..n}

Text12_5m == <<"1", "2", ".", "5", "m">>

NumValues == {Num(<<0 - 1, 1>>), Num(<<0, 1>>), Num(<<2, 1>>), Num(<<5, 2>>)}

HeightValues ==
    {None} \cup NumValues \cup {Str(s) : s \in TextsOver(HeightChars, MaxText) \cup {Text12_5m}}

LevelValues ==
    {None} \cup NumValues \cup {Str(s) : s \in TextsOver(LevelChars, MaxLevelText)}

OtherLevelValues == {None, Num(<<0, 1>>), Num(<<2, 1>>), Str(<<>>), Str(<<"3">>)}

\* an entry for key with each value, or no entry
Entries(key, values) == {<<>>} \cup {<<<<key, v>>>> : v \in values}

PropMaps ==
    {a \o b \o c : a \in Entries("height", HeightValues),
                   b \in Entries("building:levels", LevelValues),
                   c \in Entries("levels", OtherLevelValues)}

InitHeight ==
    /\ h_pc = "start"
    /\ props \in PropMaps
    /\ h_out = <<0, 1>>
    /\ WriterIdle /\ SplitIdle /\ SimplifyIdle
    /\ RingIdle /\ AreaIdle /\ ShpIdle /\ DriverIdle /\ TailIdle

notHeight == <<writerVars, splitVars, simplifyVars, ringVars, areaVars, shpVars, driverVars, tailVars>>

NextHeight == HeightCall /\ UNCHANGED notHeight

SpecHeight == InitHeight /\ [][NextHeight]_vars

HasNoLevels == get(props, "building:levels") = None /\ get(props, "levels") = None

\* the height attribute is usable: a positive number, or a text that
\* float accepts once its "m" characters are removed
UsableHeight ==
    LET h == get(props, "height")
    IN \/ IsNum(h) /\ h[2][1] > 0
       \/ IsStr(h) /\ float(replace(h[2], "m")) # None

HeightValue ==
    LET h == get(props, "height")
    IN IF IsNum(h) THEN h[2] ELSE float(replace(h[2], "m"))

\* C14: building_height_m returns 12.5 for the height text "12.5m", 9.0 for
\* the levels text "3" when there is no height, and 12.0 when height and
\* levels are absent; a usable height is returned whatever the levels are.
C14_HeightResolution ==
    h_pc = "done" =>
        /\ get(props, "height") = Str(Text12_5m) => h_out = <<25, 2>>
        /\ (get(props, "height") = None /\ get(props, "building:levels") = Str(<<"3">>))
               => h_out = <<9, 1>>
        /\ (get(props, "height") = None /\ get(props, "building:levels") = None
               /\ get(props, "levels") = Str(<<"3">>)) => h_out = <<9, 1>>
        /\ (get(props, "height") = None /\ HasNoLevels) => h_out = <<12, 1>>
        /\ UsableHeight => h_out = HeightValue

C14_Witness ==
    /\ h_pc = "done"
    /\ get(props, "height") = Str(Text12_5m)
    /\ get(props, "building:levels") = Str(<<"3">>)
    /\ h_out = <<25, 2>>

(***************************************************************************)
(* Specification SpecShp: iter_shp_records on one geometry file, complete  *)
(* or cut short.                                                           *)
(***************************************************************************)
Rec(t, b, np, n, ps) ==
    [shape_type |-> t, bytes |-> b, num_parts |-> np, num_points |-> n, part_starts |-> ps]

\* content lengths: 44 + 4 * numParts + 16 * numPoints, and the Z or M
\* range and array (16 + 8 * numPoints) after it
RecordKinds ==
    { Rec(0, 4, 0, 0, <<>>),          \* null shape
      Rec(3, 80, 1, 2, <<0>>),        \* polyline, 2 points
      Rec(5, 112, 1, 4, <<0>>),       \* polygon, 4 points
      Rec(5, 116, 2, 4, <<0, 3>>),    \* polygon, parts of 3 points and 1 point
      Rec(5, 80, 1, 2, <<0>>),        \* polygon, 2 points
      Rec(15, 160, 1, 4, <<0>>),      \* polygon with Z
      Rec(25, 160, 1, 4, <<0>>) }     \* polygon with M

RecSeqs == UNION {[1..k -> RecordKinds] : k \in 0..MaxRecs}

\* the sizes a file of these records is cut to: inside the file header, in a
\* record header, after a record header, inside a record's content, at the
\* end of a record
Cuts(recs) ==
    {0, 50, SHP_HEADER}
    \cup UNION {{Offset(recs, k - 1) + 4,
                 Offset(recs, k - 1) + REC_HEADER,
                 Offset(recs, k - 1) + REC_HEADER + recs[k].bytes \div 2,
                 Offset(recs, k)} : k \in 1..Len(recs)}

InitShp ==
    /\ shp_pc = "header"
    /\ \E rs \in RecSeqs : \E s \in Cuts(rs) : shp_file = [recs |-> rs, size |-> s]
    /\ shp_pos = 0
    /\ shp_out = <<>>
    /\ WriterIdle /\ SplitIdle /\ SimplifyIdle
    /\ RingIdle /\ AreaIdle /\ HeightIdle /\ DriverIdle /\ TailIdle

notShp == <<writerVars, splitVars, simplifyVars, ringVars, areaVars, heightVars, driverVars, tailVars>>

NextShp ==
    \/ ShpOpen /\ UNCHANGED notShp
    \/ ShpNext /\ UNCHANGED notShp

SpecShp == InitShp /\ [][NextShp]_vars

\* record k announces more content bytes than remain after its header
AnnouncesTooMuch(k) ==
    /\ Offset(shp_file.recs, k - 1) + REC_HEADER <= shp_file.size
    /\ shp_file.size < Offset(shp_file.recs, k)

RECURSIVE Decoded(_)
Decoded(recs) == IF recs = <<>> THEN <<>> ELSE decode(Head(recs)) \o Decoded(Tail(recs))

\* C16: when record k announces more content bytes than remain,
\* iter_shp_records does not raise and never reads past record k; what it has
\* yielded is what the records read so far decode to, and when the stream has
\* ended that is what records 1..k-1 decode to.
C16_TruncatedRecordEndsStream ==
    \A k \in 1..Len(shp_file.recs) :
        AnnouncesTooMuch(k) =>
            /\ shp_pc # "raised"
            /\ shp_pos <= k - 1
            /\ shp_out = Decoded(SubSeq(shp_file.recs, 1, shp_pos))
            /\ shp_pc = "end" => shp_out = Decoded(SubSeq(shp_file.recs, 1, k - 1))

C16_Witness ==
    /\ shp_pc = "end"
    /\ Len(shp_file.recs) = 3
    /\ AnnouncesTooMuch(2)
    /\ decode(shp_file.recs[2]) # <<>>
    /\ decode(shp_file.recs[3]) # <<>>
    /\ Len(shp_out) = 1

(***************************************************************************)
(* Specification SpecDriver: one run of main over a vector-source          *)
(* directory.                                                              *)
(***************************************************************************)
Pair(s, d) == [shp |-> s, dbf |-> d]

\* a category without files, with both files in order
PlainPairs == {Pair("absent", "absent"), Pair("records", "records")}

\* a short geometry header, a short attribute header, a short attribute
\* header beside a geometry file that yields nothing, only one file there
OddPairs ==
    {Pair("short", "records"), Pair("records", "short"),
     Pair("empty", "short"), Pair("records", "absent")}

\* the directories with at most MaxOdd categories in an odd state
RECURSIVE WithOdd(_, _)
WithOdd(dirs, n) ==
    IF n = 0 THEN dirs
    ELSE WithOdd(dirs \cup {[dir EXCEPT ![c] = p] : dir \in dirs, c \in InputCategorySet, p \in OddPairs},
                 n - 1)

ShapeDirs == WithOdd([InputCategorySet -> PlainPairs], MaxOdd)

InitDriver ==
    /\ dr_pc = InputCategories[1]
    /\ shape_dir \in ShapeDirs
    /\ dr_done = {}
    /\ dr_merged = FALSE
    /\ dr_tileset = FALSE
    /\ dr_exit = NoExit
    /\ WriterIdle /\ SplitIdle /\ SimplifyIdle
    /\ RingIdle /\ AreaIdle /\ HeightIdle /\ ShpIdle /\ TailIdle

notDriver == <<writerVars, splitVars, simplifyVars, ringVars, areaVars, heightVars, shpVars, tailVars>>

NextDriver ==
    \/ DrSkip /\ UNCHANGED notDriver
    \/ DrProcess /\ UNCHANGED notDriver
    \/ DrRaise /\ UNCHANGED notDriver
    \/ DrClose /\ UNCHANGED notDriver
    \/ DrMerge /\ UNCHANGED notDriver
    \/ DrTileset /\ UNCHANGED notDriver
    \/ DrReturn /\ UNCHANGED notDriver

SpecDriver == InitDriver /\ [][NextDriver]_vars

\* the file pair is present and a header is shorter than the fixed size
Malformed(c) ==
    /\ BothPresent(shape_dir[c])
    /\ shape_dir[c].shp = "short" \/ shape_dir[c].dbf = "short"

WellFormed(c) == BothPresent(shape_dir[c]) /\ ~Malformed(c)

\* C17: when the process has ended and some category's file pair is present
\* with a malformed header, every well-formed category has been processed,
\* the merge pass has run and the tileset descriptor has been written.
C17_MalformedHeaderSkipsOnlyThatCategory ==
    (dr_pc = "exit" /\ \E c \in InputCategorySet : Malformed(c)) =>
        /\ \A c \in InputCategorySet : WellFormed(c) => c \in dr_done
        /\ dr_merged
        /\ dr_tileset

NoInputs == \A c \in InputCategorySet : ~BothPresent(shape_dir[c])

\* C18: when no category's file pair exists, the process ends with a
\* non-zero exit status.
C18_NoInputsExitNonZero ==
    (dr_pc = "exit" /\ NoInputs) => dr_exit # 0

(***************************************************************************)
(* The interpolation step of split_polyline_by_tiles, under SpecSplit.     *)
(***************************************************************************)
\* the segments pts[i], pts[i + 1] the loop has visited
VisitedSegments ==
    IF sp_pc = "loop" THEN 1..(sp_i - 1)
    ELSE IF sp_pc = "done" /\ Len(pts) >= 2 THEN 1..(Len(pts) - 1)
    ELSE {}

\* the segment changes tile and dist > tile_size * 0.5: it is interpolated
Interpolated(i) ==
    /\ tile_xy(pts[i], tile_size) # tile_xy(pts[i + 1], tile_size)
    /\ IsLong(pts[i], pts[i + 1], tile_size)

\* interp_pt of the given step on segment i
InterpPt(i, step) ==
    interpolate_point(pts[i], pts[i + 1], step, num_steps(pts[i], pts[i + 1], tile_size))

\* the square of 0.4 * tile_size
StepLimit2 == <<4 * tile_size * tile_size, 25>>

\* C19: on every visited segment that changes tile and is longer than half
\* the tile size, consecutive interpolated points are at most
\* 0.4 * tile_size apart.
C19_InterpolationStepAtMostFourTenths ==
    \A i \in VisitedSegments :
        Interpolated(i) =>
            \A step \in 1..(num_steps(pts[i], pts[i + 1], tile_size) - 2) :
                LET d2 == Dist2(InterpPt(i, step), InterpPt(i, step + 1))
                IN ~FrLt(StepLimit2, Fr(d2[1], d2[2]))

(***************************************************************************)
(* The order of the phases of main, checked under Spec.                    *)
(***************************************************************************)
PhaseRank(p) ==
    CASE p = "run" -> 0
      [] p = "closed" -> 1
      [] p = "merged" -> 2
      [] p = "done" -> 3
      [] OTHER -> 0

\* what write_tile_jsons writes from the intermediate files present
MergeOf(names, text) ==
    [t \in {TileOf(fn) : fn \in {g \in names : Usable(g)}} |-> Payload(t, names, text)]

PolyCodes == {3, 5, 13, 15, 23, 25}

\* the 2-D record with the same part and point arrays
TwoD(r) ==
    Rec(r.shape_type % 10, 44 + 4 * r.num_parts + 16 * r.num_points,
        r.num_parts, r.num_points, r.part_starts)

\* what a record yields when every code of PolyCodes is recognized
RecognizedYield(r) ==
    IF r.shape_type \in PolyCodes
    THEN <<[shape_type |-> r.shape_type, parts |-> decode(TwoD(r))[1].parts]>>
    ELSE <<>>

RECURSIVE RecognizedStream(_)
RecognizedStream(recs) ==
    IF recs = <<>> THEN <<>>
    ELSE RecognizedYield(Head(recs)) \o RecognizedStream(Tail(recs))

\* C22: of the records read so far, each with a polyline or polygon code, 2-D,
\* 3-D (13, 15) or measured (23, 25), has yielded one record with the parts of
\* the 2-D record with the same arrays, and the others have yielded nothing.
C22_MeasuredVariantsRecognized ==
    shp_pc \in {"records", "end"} =>
        shp_out = RecognizedStream(SubSeq(shp_file.recs, 1, shp_pos))

IsPolygon(rec) == rec.shape_type \in {5, 15}

\* C23: every part of a yielded polyline record has at least 2 points and
\* every part of a yielded polygon record has at least 3 points.
C23_YieldedPartsNotDegenerate ==
    \A k \in 1..Len(shp_out) :
        \A p \in 1..Len(shp_out[k].parts) :
            Len(shp_out[k].parts[p]) >= (IF IsPolygon(shp_out[k]) THEN 3 ELSE 2)


\* C30: building_height_m returns a strictly positive height for every
\* property map, whatever the height and levels attributes hold.
C30_HeightStrictlyPositive == h_pc = "done" => h_out[1] > 0

(***************************************************************************)
(* Specification SpecZip: the loop of one category of main over its        *)
(* geometry file and its attribute file.                                   *)
(***************************************************************************)
ZipRecordKinds ==
    { Rec(0, 4, 0, 0, <<>>),          \* null shape
      Rec(5, 112, 1, 4, <<0>>) }      \* polygon, 4 points

ZipRecSeqs == UNION {[1..k -> ZipRecordKinds] : k \in 0..MaxRecs}

\* the geometry file whole, or cut in its header
ZipCuts(recs) == {50, Offset(recs, Len(recs))}

FlagSeqs == UNION {[1..k -> {"live", "deleted"}] : k \in 0..MaxDbfRecs}

\* the attribute file whole, without its last byte, or cut in its header or
\* in its field list
DbfCuts(flags) ==
    {DBF_HEADER - 1, header_len - 1,
     header_len + Len(flags) * record_len - 1,
     header_len + Len(flags) * record_len}

InitZip ==
    /\ zip_pc = "shp"
    /\ pairs = <<>>
    /\ shp_pc = "header"
    /\ \E rs \in ZipRecSeqs : \E s \in ZipCuts(rs) : shp_file = [recs |-> rs, size |-> s]
    /\ shp_pos = 0
    /\ shp_out = <<>>
    /\ dbf_pc = "header"
    /\ \E fl \in FlagSeqs : \E n \in 0..(MaxDbfRecs + 1) : \E s \in DbfCuts(fl) :
           dbf_file = [num_records |-> n, flags |-> fl, size |-> s]
    /\ dbf_pos = 0
    /\ dbf_out = <<>>
    /\ WriterIdle /\ SplitIdle /\ SimplifyIdle
    /\ RingIdle /\ AreaIdle /\ HeightIdle /\ DriverIdle /\ RerunIdle /\ ClipIdle

notZip == <<writerVars, splitVars, simplifyVars, ringVars, areaVars, heightVars, driverVars,
            rerunVars, clipVars>>

NextZip ==
    \/ ZipShp(ShpOpen) /\ UNCHANGED notZip
    \/ ZipShp(ShpNext) /\ UNCHANGED notZip
    \/ ZipDbf(DbfOpen) /\ UNCHANGED notZip
    \/ ZipDbf(DbfNext) /\ UNCHANGED notZip

SpecZip == InitZip /\ [][NextZip]_vars

\* the file positions of the geometry records that decode to a ShpRecord
Yielding == SelectSeq([i \in 1..Len(shp_file.recs) |-> i],
                      LAMBDA i : decode(shp_file.recs[i]) # <<>>)

\* the file positions of the attribute records not marked deleted
NonDeleted == SelectSeq([i \in 1..Len(dbf_file.flags) |-> i],
                        LAMBDA i : dbf_file.flags[i] = "live")

\* every geometry record is yielded and exactly the attribute record at
\* position j is marked deleted
OneDeletedAt(j) ==
    /\ Len(Yielding) = Len(shp_file.recs)
    /\ j \in 1..Len(dbf_file.flags)
    /\ \A i \in 1..Len(dbf_file.flags) : dbf_file.flags[i] = "deleted" <=> i = j

\* C21: the k-th geometry record yielded is paired with the k-th non-deleted
\* attribute record, and the loop stops without an error when either stream
\* ends; when no geometry record is skipped and one attribute record is marked
\* deleted, every geometry record at or after that position is paired with the
\* attribute record one position after its own.
C21_ZipPairsKthWithKth ==
    /\ Len(pairs) <= Len(Yielding) /\ Len(pairs) <= Len(NonDeleted)
    /\ \A k \in 1..Len(pairs) : pairs[k] = <<Yielding[k], NonDeleted[k]>>
    /\ (shp_pc = "end" \/ dbf_pc = "end") => zip_pc = "done"
    /\ zip_pc = "raised" => (shp_pc = "raised" \/ dbf_pc = "raised")
    /\ zip_pc = "done" =>
           /\ Len(pairs) = Len(dbf_out)
           /\ Len(shp_out) \in {Len(pairs), Len(pairs) + 1}
    /\ \A j \in 1..MaxDbfRecs :
           OneDeletedAt(j) =>
               \A k \in 1..Len(pairs) :
                   pairs[k][1] >= j => pairs[k][2] = pairs[k][1] + 1

C21_Witness ==
    /\ zip_pc = "done"
    /\ OneDeletedAt(2)
    /\ pairs = <<<<1, 1>>, <<2, 3>>>>

\* the number of complete records present in the attribute file
CompleteRecords ==
    IF dbf_file.size < header_len THEN 0
    ELSE Min2(Len(dbf_file.flags), (dbf_file.size - header_len) \div record_len)

\* C25: the header's record count is advisory: when read_dbf_records has
\* ended it has yielded every complete non-deleted record present in the
\* stream, whether the header count is larger or smaller than their number.
C25_HeaderCountAdvisory ==
    dbf_pc = "end" =>
        dbf_out = SelectSeq([i \in 1..CompleteRecords |-> i],
                            LAMBDA i : dbf_file.flags[i] = "live")


\* the interval at the top of the stack
Top == stack[Len(stack)]

\* the intervals an iteration pushes lie in the interval it popped and are
\* strictly shorter
PushedShorter ==
    (dp_pc = "loop" /\ stack # <<>>) =>
        \A k \in Len(stack)..Len(stack') :
            /\ Top[1] <= stack'[k][1]
            /\ stack'[k][2] <= Top[2]
            /\ stack'[k][2] - stack'[k][1] < Top[2] - Top[1]

\* C28: simplify_douglas_peucker terminates on every input and tolerance:
\* each interval pushed on the stack is strictly shorter than the interval it
\* was split from, and the call reaches its return.
C28_SimplifyTerminates == [][PushedShorter]_vars /\ <>(dp_pc = "done")

C28_Witness ==
    /\ dp_pc = "done"
    /\ epsilon[1] < 0
    /\ Len(points) >= 5 /\ ~closed(points)
    /\ \A i \in 1..Len(keep) : keep[i]


(***************************************************************************)
(* Specification SpecRerun: two runs of main, one after the other, on the  *)
(* same input and output root; the first starts from an empty output root. *)
(***************************************************************************)
InitRerun ==
    /\ pc = "run"
    /\ max_open \in 0..MaxOpen
    /\ keep_tmp \in BOOLEAN
    /\ files = <<>>
    /\ buffers = [p \in Paths |-> <<>>]
    /\ tmp_files = {}
    /\ content = [p \in Paths |-> <<>>]
    /\ tiles_out = [t \in {} |-> <<>>]
    /\ appended = [p \in Paths |-> <<>>]
    /\ opens = [p \in Paths |-> 0]
    /\ evicted = NoPath
    /\ written = NoPath
    /\ rr_run = 1
    /\ rr_first = <<>>
    /\ SplitIdle /\ SimplifyIdle
    /\ RingIdle /\ AreaIdle /\ HeightIdle /\ ShpIdle /\ DriverIdle /\ DbfIdle /\ ZipIdle /\ ClipIdle

notRerun == <<splitVars, simplifyVars, ringVars, areaVars, heightVars, shpVars, driverVars,
              dbfVars, zipVars, clipVars>>

NextRerun ==
    \/ \E path \in Paths, flush \in BOOLEAN : FirstAppend(path, flush) /\ UNCHANGED notRerun
    \/ \E flush \in BOOLEAN : ReplayAppend(flush) /\ UNCHANGED notRerun
    \/ RerunClose /\ UNCHANGED notRerun
    \/ Merge /\ UNCHANGED <<rerunVars, notRerun>>
    \/ Cleanup /\ UNCHANGED <<rerunVars, notRerun>>
    \/ \E clean \in BOOLEAN, keep_next \in BOOLEAN : Restart(clean, keep_next) /\ UNCHANGED notRerun

SpecRerun == InitRerun /\ [][NextRerun]_vars

\* C29: the second run writes the same TileRecords as the first run, which
\* started from an empty intermediate directory, whether or not the first
\* run's intermediate files are still present.
C29_RerunWritesSameTileRecords ==
    (rr_run = 2 /\ pc \in {"merged", "done"}) => tiles_out = rr_first.tiles


(***************************************************************************)
(* Specification SpecClip: one feature of each category at the clip        *)
(* filter, with and without a clip polygon.                                *)
(***************************************************************************)
ClipSquare == <<Pt(0, 0), Pt(4, 0), Pt(4, 4), Pt(0, 4)>>

ClipGrid == {Pt(x, y) : x \in {-3, 1, 5}, y \in {1, 5}}

\* long features with one point inside the square: every second vertex of
\* a ring of 16 and of a line of 32 is sampled
LongFeatures(n) == {[i \in 1..n |-> IF i = k THEN Pt(1, 1) ELSE Pt(5, 5)] : k \in 1..3}

ShortFeatures == UNION {[1..n -> ClipGrid] : n \in 1..MaxClipPts}

RingCategories == {"buildings", "waters", "landcovers"}

LineCategories == {"roads", "waterways", "railways"}

\* the point lists a category lets reach the filter
FeaturesOf(category) ==
    IF category \in RingCategories
    THEN {ps \in ShortFeatures : Len(ps) >= 3} \cup LongFeatures(16)
    ELSE IF category \in LineCategories
    THEN {ps \in ShortFeatures : Len(ps) >= 2} \cup LongFeatures(32)
    ELSE {ps \in ShortFeatures : Len(ps) = 1}

InitClip ==
    /\ cl_pc = "start"
    /\ \E c \in RingCategories \cup LineCategories \cup {"pois"}, r \in BOOLEAN,
          cp \in {None, ClipSquare}, o \in {Pt(0, 0), Pt(2, 2)} :
        \E ps \in FeaturesOf(c) :
           /\ r => c = "buildings"
           /\ cl_in = [category |-> c, rect_buildings |-> r, points |-> ps,
                       clip |-> cp, origin |-> o]
    /\ cl_appended = FALSE
    /\ WriterIdle /\ SplitIdle /\ SimplifyIdle
    /\ RingIdle /\ AreaIdle /\ HeightIdle /\ ShpIdle /\ DriverIdle
    /\ DbfIdle /\ ZipIdle /\ RerunIdle

notClip == <<writerVars, splitVars, simplifyVars, ringVars, areaVars, heightVars, shpVars,
             driverVars, dbfVars, zipVars, rerunVars>>

NextClip ==
    \/ ClipBuilding /\ UNCHANGED notClip
    \/ ClipLandcover /\ UNCHANGED notClip
    \/ ClipLine /\ UNCHANGED notClip
    \/ ClipPoi /\ UNCHANGED notClip

SpecClip == InitClip /\ [][NextClip]_vars

\* the indexes (1-based) of the points taken one out of every step
SampledIndexes(n, step) == {i \in 1..n : (i - 1) % step = 0}

\* the feature's sampled representative points, in absolute metres
SamplePoints ==
    LET ps == cl_in.points
        n == Len(ps)
        every == IF cl_in.category \in RingCategories THEN Max2(1, n \div 8)
                 ELSE IF cl_in.category \in LineCategories THEN Max2(1, n \div 16)
                 ELSE 1
    IN {to_abs(ps[i], cl_in.origin) : i \in SampledIndexes(n, every)}
       \cup (IF cl_in.category \in RingCategories
             THEN {to_abs(ring_mean(ps), cl_in.origin)} ELSE {})

\* C24: with a clip polygon, a feature whose fragment is appended has one of
\* its sampled representative points inside the clip polygon, for buildings
\* in either export mode and every other category; with no clip polygon every
\* feature passes.
C24_AppendedOnlyInsideClip ==
    cl_pc = "done" =>
        /\ (cl_appended /\ cl_in.clip # None) =>
               \E q \in SamplePoints : point_in_polygon(q, cl_in.clip)
        /\ cl_in.clip = None => cl_appended

====
